---- MODULE Spec2Model ----
(***************************************************************************)
(* Checkpointed page-by-page fetch pipelines of the repository:            *)
(*   - the court-records downloader, src/UYAP Turkish Court Records/       *)
(*     scrape.py (load_progress, save_progress, init_csv_file,             *)
(*     append_row_to_csv, main);                                           *)
(*   - the company-list scraper, src/ZaubaCorp/scrape.py (CompanyScraper), *)
(*     and, attempt by attempt, its scrape_page and process_page_range;    *)
(*   - the remote fetchers zyte_request (court-records downloader) and     *)
(*     zyte_extract (src/REPUBLIC OF TURKEY OFFICIAL GAZETTE/scrape.py);   *)
(*   - the news pipeline, src/LLM_Dashboard/data_gen.py (main and its two  *)
(*     client calls);                                                      *)
(*   - the company-registry scraper, src/Istanbul Chamber of Commerce      *)
(*     Company Search/scrape.py.                                           *)
(* The disk (progress file, CSV file) survives a kill of the process; the  *)
(* in-memory state does not.                                               *)
(***************************************************************************)
EXTENDS Integers, Sequences, FiniteSets, TLC

\* ------------------------------------------------------------------------
\* Bounds of the model
\* ------------------------------------------------------------------------
\* pages walked by main(): range(1, TOTAL_PAGES_TO_FETCH + 1); 63815 in the
\* source, scaled down here
TOTAL_PAGES_TO_FETCH == 2
\* worker threads of the ThreadPoolExecutor in main(); 5 in the source
CONCURRENT_REQUESTS == 1
\* records in one page response (page_size of post_aramadetaylist); 10 in
\* the source
PAGE_SIZE == 2
\* process invocations (runs) followed by the model
MaxRuns == 2

\* document ids the site can return; "" is a record without a usable id
Ids == {"a", "b"}
NoId == ""

Pages == 1..TOTAL_PAGES_TO_FETCH

\* CompanyScraper(max_workers=...); 3 in the source
max_workers == 2
\* self.total_companies_target; 3_000_000 in the source
total_companies_target == 3
\* last page number a batch of the company-list scraper may reach
MaxPageZ == 7
\* rows (companies) one page of the company list yields at most
MaxCompanies == 1
\* cap of the history counter of the requests made for one page
MaxRequests == 4
\* len(months_2024); 12 in the source
NumMonths == 3
\* records one transformation returns at most
MaxRecords == 1
\* dropdown combinations the nested loops walk through
NumCombos == 2
\* next-page clicks of one combination that return a response, at most
MaxSitePages == 2

Workers == 0..(max_workers - 1)
NoTask == [state |-> "none", page |-> 0, end |-> 0]

\* ------------------------------------------------------------------------
\* State
\* ------------------------------------------------------------------------
VARIABLES
    script,          \* which script the process runs: "uyap", "zauba", or "roundtrip" (save/load exercised alone)
    pc,              \* position of the main thread
    page_number,     \* loop variable of main()
    pages_done,      \* in-memory set of page numbers
    ids_downloaded,  \* in-memory set of document ids
    metadata_by_id,  \* keys of the dict built from the page's records
    futures,         \* state of the download submitted for each id
    doc_id,          \* id whose row is being written by the collect loop
    PROGRESS_FILE,   \* progress.json on disk
    CSV_FILE,        \* downloaded_docs.csv on disk
    run,             \* number of the current process invocation
    loaded,          \* history: what load_progress returned in this run
    fetched,         \* history: pages post_aramadetaylist was called for in this run
    downloads,       \* history: number of download_document calls per id in this run
    page_records,    \* history: ids of the records a page returned when last processed
    abandoned,       \* history: ids whose download error was logged when the page was last processed
    once,            \* history: what the disk held after the first of two equal commits
    killedP,         \* history: page the previous run was killed on, after its collect loop and before save_progress (0: none)
    prev_done,       \* history: pages_done of the previous run, without killedP, when it was killed there
    \* --- company-list scraper (CompanyScraper) ---
    current_page,    \* self.current_page
    companies_found, \* self.companies_found
    completed_pages, \* completed_pages of the batch being collected
    results_queue,   \* self.results_queue
    workers,         \* the process_page_range calls of the batch
    PROGRESS_TXT,    \* progress.txt on disk
    COMPANIES_CSV,   \* companies.csv on disk
    batch_start,     \* history: current_page when the batch was submitted
    z_fetched,       \* history: pages scrape_page was called for in this run
    z_killed,        \* history: batch_start of the batch the previous run was killed in, after its collect loop and before save_progress (0: none)
    rows_at_start,   \* history: rows downloaded_docs.csv held when the run started
    dirty_kill,      \* history: a run was killed while a row of the CSV file had its id not yet in the saved ids_downloaded
    \* --- process_page_range and scrape_page of one worker, attempt by attempt ---
    pr_page,         \* loop variable page of process_page_range
    pr_end_page,     \* end_page of process_page_range
    attempt,         \* loop variable of scrape_page
    site,            \* how the site answers the requests for each page of the range
    requests_of,     \* history: requests.post calls made for each page
    sleeps_of,       \* history: the backoff sleeps of scrape_page for each page, in seconds
    returned,        \* history: what scrape_page returned for each page
    \* --- one call of zyte_request or zyte_extract ---
    fetcher,         \* the function called
    payload,         \* the options of the extraction request that matter to the function
    response,        \* what requests.post returned
    resp_data,       \* data = resp.json()
    f_return,        \* the value the call returned ("pending": none yet)
    f_raised,        \* the exception that left the call ("none": none)
    \* --- the news pipeline ---
    month,           \* loop variable of main(): index into months_2024
    perplexity_raw,  \* what query_articles returned for the month
    master_data,     \* the records of all months so far
    output_files,    \* the files main() has written
    failed_months,   \* history: months whose query or transformation failed
    contributed,     \* history: number of records each month added to master_data
    \* --- the company-registry scraper ---
    combo,           \* the dropdown combination at hand, in loop order
    all_data,        \* collect_all_pages_data: the page responses captured
    page_num,        \* collect_all_pages_data: page_num
    log_file,        \* the entries of the search log
    saved,           \* the JSON files written, one per saved combination
    events_of,       \* history: what happened in each combination (selected, skipped, errors)
    responses_of     \* history: the responses each combination's next-page clicks returned

\* variables of the court-records downloader
uvars == <<page_number, pages_done, ids_downloaded, metadata_by_id, futures,
           doc_id, PROGRESS_FILE, CSV_FILE, loaded, fetched, downloads,
           page_records, abandoned>>

\* variables of the company-list scraper
zvars == <<current_page, companies_found, completed_pages, results_queue, workers,
           PROGRESS_TXT, COMPANIES_CSV, batch_start, z_fetched, z_killed>>

\* history variables of the CSV rows of the court-records downloader
hvars == <<rows_at_start, dirty_kill>>

\* variables of a single process_page_range call
svars == <<pr_page, pr_end_page, attempt, site, requests_of, sleeps_of, returned>>

\* variables of one call of a remote fetcher
fvars == <<fetcher, payload, response, resp_data, f_return, f_raised>>

\* variables of the news pipeline
nvars == <<month, perplexity_raw, master_data, output_files, failed_months, contributed>>

\* variables of the company-registry scraper
rvars == <<combo, all_data, page_num, log_file, saved, events_of, responses_of>>

\* variables of the scripts without a checkpoint
xvars == <<fvars, nvars, rvars>>

vars == <<killedP, prev_done, zvars, script, once, pc, page_number, pages_done, ids_downloaded, metadata_by_id, futures,
          doc_id, PROGRESS_FILE, CSV_FILE, run, loaded, fetched, downloads,
          page_records, abandoned, hvars, svars, xvars>>

\* ------------------------------------------------------------------------
\* Helpers: Python and JSON conversions
\* ------------------------------------------------------------------------
Range(s) == {s[i] : i \in DOMAIN s}

\* list(some_set): the elements of the set, each once, in an order the
\* interpreter picks
list(S) == {s \in [1..Cardinality(S) -> S] : Range(s) = S}

\* set(some_list)
set(s) == Range(s)

\* mutation: the element is not added
add_noop(S, x) == S

\* set.add
add(S, x) == S \cup {x}

\* mutation: the ids are left out of the written document
json_dump_no_ids(data) ==
    [kind |-> "object", keys |-> {"pages_done", "ids_downloaded"},
     pages_done |-> data.pages_done, ids_downloaded |-> <<>>]

\* the document json.dump writes for the dict built in save_progress
json_dump(data) ==
    [kind |-> "object", keys |-> {"pages_done", "ids_downloaded"},
     pages_done |-> data.pages_done, ids_downloaded |-> data.ids_downloaded]

\* a flushed prefix of a document: not parseable
Partial == [kind |-> "partial", keys |-> {}, pages_done |-> <<>>, ids_downloaded |-> <<>>]

\* the empty JSON object {}
EmptyObject == [kind |-> "object", keys |-> {}, pages_done |-> <<>>, ids_downloaded |-> <<>>]

NoFile == [exists |-> FALSE, text |-> <<>>]

\* json.load succeeds iff the text is exactly one complete document
json_load_ok(file) == Len(file.text) = 1 /\ file.text[1].kind = "object"

\* dict.get(key, [])
get(doc, key) ==
    IF key \notin doc.keys THEN <<>>
    ELSE IF key = "pages_done" THEN doc.pages_done ELSE doc.ids_downloaded

\* mutation: whatever the file holds, the run starts from the empty state
load_progress_reset(file) ==
    [raised |-> FALSE, pages_done |-> {}, ids_downloaded |-> {}]

\* load_progress: raised = TRUE stands for the exception json.load raises
load_progress(file) ==
    IF ~file.exists
    THEN [raised |-> FALSE, pages_done |-> {}, ids_downloaded |-> {}]
    ELSE IF ~json_load_ok(file)
    THEN [raised |-> TRUE, pages_done |-> {}, ids_downloaded |-> {}]
    ELSE [raised |-> FALSE,
          pages_done |-> set(get(file.text[1], "pages_done")),
          ids_downloaded |-> set(get(file.text[1], "ids_downloaded"))]

\* mutation: the file is opened for appending
open_w_append(file) == [exists |-> TRUE, text |-> file.text]

\* open(filepath, "w"): the file exists and is empty
open_w(file) == [exists |-> TRUE, text |-> <<>>]

\* the text ends in a flushed prefix of a document
ends_partial(t) == IF Len(t) = 0 THEN FALSE ELSE t[Len(t)].kind = "partial"

\* the text once the whole document has reached the file
write_all(file, doc) ==
    LET t == file.text
        kept == IF ends_partial(t) THEN SubSeq(t, 1, Len(t) - 1) ELSE t
    IN [exists |-> TRUE, text |-> Append(kept, doc)]

\* mutation: the pages done are left out of what is saved
save_data_no_pages(pd, ids) ==
    {[pages_done |-> <<>>, ids_downloaded |-> i] : i \in list(ids)}

\* the dicts save_progress may build from the in-memory sets:
\* {"pages_done": list(pages_done), "ids_downloaded": list(ids_downloaded)}
save_data(pd, ids) ==
    {[pages_done |-> p, ids_downloaded |-> i] : p \in list(pd), i \in list(ids)}

HeaderRow == "#header"

\* mutation: the row is not written
append_row_to_csv_skip(file, row) == file

\* append_row_to_csv: open(csv_path, mode="a"), writer.writerow(row_data)
append_row_to_csv(file, row) == [exists |-> TRUE, rows |-> Append(file.rows, row)]

NoLoad == [raised |-> FALSE, pages_done |-> {}, ids_downloaded |-> {}]

\* ------------------------------------------------------------------------
\* Initial state: a first invocation, with whatever is on disk
\* ------------------------------------------------------------------------
\* no files; a progress file that is the object {}; a progress file whose
\* text is cut off
InitFiles ==
    { <<NoFile, [exists |-> FALSE, rows |-> <<>>]>>,
      <<[exists |-> TRUE, text |-> <<EmptyObject>>], [exists |-> FALSE, rows |-> <<>>]>>,
      <<[exists |-> TRUE, text |-> <<Partial>>], [exists |-> FALSE, rows |-> <<>>]>> }

\* the company-list scraper is not running
\* no process_page_range call is followed
SQuiet ==
    /\ pr_page = 0
    /\ pr_end_page = 0
    /\ attempt = 0
    /\ site = <<>>
    /\ requests_of = <<>>
    /\ sleeps_of = <<>>
    /\ returned = <<>>

\* no call of zyte_request or zyte_extract is followed
FQuiet ==
    /\ fetcher = "none"
    /\ payload = {}
    /\ response = "none"
    /\ resp_data = "none"
    /\ f_return = "pending"
    /\ f_raised = "none"

\* the news pipeline is not followed
NQuiet ==
    /\ month = 0
    /\ perplexity_raw = ""
    /\ master_data = <<>>
    /\ output_files = {}
    /\ failed_months = {}
    /\ contributed = <<>>

\* the company-registry scraper is not followed
RQuiet ==
    /\ combo = 0
    /\ all_data = <<>>
    /\ page_num = 0
    /\ log_file = <<>>
    /\ saved = <<>>
    /\ events_of = <<>>
    /\ responses_of = <<>>

\* no CSV row has been written
HQuiet ==
    /\ rows_at_start = 0
    /\ dirty_kill = FALSE

ZQuiet ==
    /\ current_page = 1
    /\ companies_found = 0
    /\ completed_pages = {}
    /\ results_queue = <<>>
    /\ workers = [w \in Workers |-> NoTask]
    /\ PROGRESS_TXT = NoFile
    /\ COMPANIES_CSV = [exists |-> FALSE, rows |-> <<>>]
    /\ batch_start = 0
    /\ z_fetched = {}
    /\ z_killed = 0

Init ==
    /\ script = "uyap"
    /\ once = NoLoad
    /\ pc = "load"
    /\ page_number = 1
    /\ pages_done = {}
    /\ ids_downloaded = {}
    /\ metadata_by_id = {}
    /\ futures = [i \in Ids |-> "none"]
    /\ doc_id = NoId
    /\ \E f \in InitFiles : PROGRESS_FILE = f[1] /\ CSV_FILE = f[2]
    /\ run = 1
    /\ loaded = NoLoad
    /\ fetched = {}
    /\ downloads = [i \in Ids |-> 0]
    /\ page_records = [p \in Pages |-> {}]
    /\ abandoned = [p \in Pages |-> {}]
    /\ killedP = 0
    /\ prev_done = {}
    /\ HQuiet
    /\ FQuiet
    /\ NQuiet
    /\ RQuiet
    /\ SQuiet
    /\ ZQuiet

\* ------------------------------------------------------------------------
\* main(): start of the run
\* ------------------------------------------------------------------------
\* progress = load_progress(PROGRESS_FILE)
Load ==
    /\ script = "uyap"
    /\ pc = "load"
    /\ LET r == load_progress(PROGRESS_FILE) IN
        /\ loaded' = r
        /\ IF r.raised
           THEN /\ pc' = "error"
                /\ UNCHANGED <<pages_done, ids_downloaded>>
           ELSE /\ pc' = "init_csv"
                /\ pages_done' = r.pages_done
                /\ ids_downloaded' = r.ids_downloaded
    /\ UNCHANGED <<page_number, metadata_by_id, futures, doc_id, PROGRESS_FILE,
                   CSV_FILE, run, fetched, downloads, page_records, abandoned>>
    /\ UNCHANGED <<script, once, zvars, killedP, prev_done, hvars, xvars, svars>>

\* init_csv_file: open(csv_path, "w") when the file does not exist
InitCsv ==
    /\ script = "uyap"
    /\ pc = "init_csv"
    /\ IF CSV_FILE.exists
       THEN pc' = "loop" /\ UNCHANGED CSV_FILE
       ELSE pc' = "write_header" /\ CSV_FILE' = [exists |-> TRUE, rows |-> <<>>]
    /\ UNCHANGED <<page_number, pages_done, ids_downloaded, metadata_by_id, futures,
                   doc_id, PROGRESS_FILE, run, loaded, fetched, downloads,
                   page_records, abandoned>>
    /\ UNCHANGED <<script, once, zvars, killedP, prev_done, hvars, xvars, svars>>

\* init_csv_file: writer.writeheader()
WriteHeader ==
    /\ script = "uyap"
    /\ pc = "write_header"
    /\ CSV_FILE' = [CSV_FILE EXCEPT !.rows = Append(@, HeaderRow)]
    /\ pc' = "loop"
    /\ UNCHANGED <<page_number, pages_done, ids_downloaded, metadata_by_id, futures,
                   doc_id, PROGRESS_FILE, run, loaded, fetched, downloads,
                   page_records, abandoned>>
    /\ UNCHANGED <<script, once, zvars, killedP, prev_done, hvars, xvars, svars>>

\* ------------------------------------------------------------------------
\* main(): the page loop
\* ------------------------------------------------------------------------
\* the ids of the records of a response, one per record (NoId: record
\* whose "id" is missing or empty)
RecordLists == UNION {[1..n -> Ids \cup {NoId}] : n \in 0..PAGE_SIZE}

\* what post_aramadetaylist and the extraction of the records can yield:
\*   raise     - the request or the JSON parse raised
\*   malformed - parsed JSON without the data.data structure
\*   ok        - a list of records
Responses ==
    {[kind |-> "raise", records |-> <<>>], [kind |-> "malformed", records |-> <<>>]}
    \cup {[kind |-> "ok", records |-> r] : r \in RecordLists}

\* mutation: only the last record of the page is kept
build_metadata_last(records) ==
    IF records = <<>> THEN {} ELSE {records[Len(records)]} \ {NoId}

\* for r in records: doc_id = str(r.get("id", "")); if doc_id: metadata_by_id[doc_id] = r
build_metadata(records) == {records[i] : i \in DOMAIN records} \ {NoId}

\* mutation: the skip test never succeeds
page_is_done_never(p, done) == FALSE

\* page_number in pages_done
page_is_done(p, done) == p \in done

\* if page_number in pages_done: continue
SkipPage ==
    /\ script = "uyap"
    /\ pc = "loop"
    /\ page_number \in Pages
    /\ page_is_done(page_number, pages_done)
    /\ page_number' = page_number + 1
    /\ UNCHANGED <<pc, pages_done, ids_downloaded, metadata_by_id, futures, doc_id,
                   PROGRESS_FILE, CSV_FILE, run, loaded, fetched, downloads,
                   page_records, abandoned>>
    /\ UNCHANGED <<script, once, zvars, killedP, prev_done, hvars, xvars, svars>>

\* data = post_aramadetaylist(...) up to the construction of metadata_by_id
FetchPage ==
    /\ script = "uyap"
    /\ pc = "loop"
    /\ page_number \in Pages
    /\ ~page_is_done(page_number, pages_done)
    /\ fetched' = add(fetched, page_number)
    /\ \E resp \in Responses :
        CASE resp.kind = "raise" ->
                \* except Exception: print; continue
                /\ page_number' = page_number + 1
                /\ UNCHANGED <<pc, metadata_by_id, page_records, abandoned>>
          [] resp.kind = "malformed" ->
                \* data.get("data", {}).get("data", []) raises outside any try
                /\ pc' = "error"
                /\ UNCHANGED <<page_number, metadata_by_id, page_records, abandoned>>
          [] resp.kind = "ok" ->
                /\ page_records' = [page_records EXCEPT ![page_number] = Range(resp.records)]
                /\ abandoned' = [abandoned EXCEPT ![page_number] = {}]
                /\ IF resp.records = <<>>
                   THEN pc' = "add_page" /\ metadata_by_id' = {}
                   ELSE pc' = "submit" /\ metadata_by_id' = build_metadata(resp.records)
                /\ UNCHANGED page_number
    /\ UNCHANGED <<pages_done, ids_downloaded, futures, doc_id, PROGRESS_FILE,
                   CSV_FILE, run, loaded, downloads>>
    /\ UNCHANGED <<script, once, zvars, killedP, prev_done, hvars, xvars, svars>>

\* mutation: the loop ends after its first page
loop_exhausted_early(p) == p > 1

\* for page_number in range(1, TOTAL_PAGES_TO_FETCH + 1): no value is left
loop_exhausted(p) == p > TOTAL_PAGES_TO_FETCH

\* the loop is exhausted: "All requested pages have been processed!"
Finish ==
    /\ script = "uyap"
    /\ pc = "loop"
    /\ loop_exhausted(page_number)
    /\ pc' = "finished"
    /\ UNCHANGED <<page_number, pages_done, ids_downloaded, metadata_by_id, futures,
                   doc_id, PROGRESS_FILE, CSV_FILE, run, loaded, fetched, downloads,
                   page_records, abandoned>>
    /\ UNCHANGED <<script, once, zvars, killedP, prev_done, hvars, xvars, svars>>

\* ------------------------------------------------------------------------
\* main(): the dispatcher (ThreadPoolExecutor block)
\* ------------------------------------------------------------------------
\* mutation: every id of the page is submitted
submit_filter_all(ids, done) == ids

\* if doc_id not in ids_downloaded: executor.submit(download_document, doc_id)
submit_filter(ids, done) == ids \ done

Submit ==
    /\ script = "uyap"
    /\ pc = "submit"
    /\ futures' = [i \in Ids |->
                     IF i \in submit_filter(metadata_by_id, ids_downloaded)
                     THEN "queued" ELSE "none"]
    /\ pc' = "collect"
    /\ UNCHANGED <<page_number, pages_done, ids_downloaded, metadata_by_id, doc_id,
                   PROGRESS_FILE, CSV_FILE, run, loaded, fetched, downloads,
                   page_records, abandoned>>
    /\ UNCHANGED <<script, once, zvars, killedP, prev_done, hvars, xvars, svars>>

Running == {i \in Ids : futures[i] = "running"}
Unsettled == {i \in Ids : futures[i] \in {"queued", "running"}}
Uncollected == {i \in Ids : futures[i] \in {"queued", "running", "ok", "err"}}

\* mutation: a thread per submitted call
worker_free_always(running) == TRUE

\* a pool thread is free to take a queued call (max_workers threads)
worker_free(running) == Cardinality(running) < CONCURRENT_REQUESTS

\* a pool thread calls download_document(doc_id)
StartDownload(i) ==
    /\ script = "uyap"
    /\ pc \in {"collect", "mark"}
    /\ futures[i] = "queued"
    /\ worker_free(Running)
    /\ futures' = [futures EXCEPT ![i] = "running"]
    /\ downloads' = [downloads EXCEPT ![i] = @ + 1]
    /\ UNCHANGED <<pc, page_number, pages_done, ids_downloaded, metadata_by_id,
                   doc_id, PROGRESS_FILE, CSV_FILE, run, loaded, fetched,
                   page_records, abandoned>>
    /\ UNCHANGED <<script, once, zvars, killedP, prev_done, hvars, xvars, svars>>

\* download_document returns the text, or zyte_request raises
FinishDownload(i) ==
    /\ script = "uyap"
    /\ pc \in {"collect", "mark"}
    /\ futures[i] = "running"
    /\ \E res \in {"ok", "err"} : futures' = [futures EXCEPT ![i] = res]
    /\ UNCHANGED <<pc, page_number, pages_done, ids_downloaded, metadata_by_id,
                   doc_id, PROGRESS_FILE, CSV_FILE, run, loaded, fetched, downloads,
                   page_records, abandoned>>
    /\ UNCHANGED <<script, once, zvars, killedP, prev_done, hvars, xvars, svars>>

\* for future in as_completed(futures): a failed download is printed and skipped
CollectError(i) ==
    /\ script = "uyap"
    /\ pc = "collect"
    /\ futures[i] = "err"
    /\ futures' = [futures EXCEPT ![i] = "done"]
    /\ abandoned' = [abandoned EXCEPT ![page_number] = add(@, i)]
    /\ UNCHANGED <<pc, page_number, pages_done, ids_downloaded, metadata_by_id,
                   doc_id, PROGRESS_FILE, CSV_FILE, run, loaded, fetched, downloads,
                   page_records>>
    /\ UNCHANGED <<script, once, zvars, killedP, prev_done, hvars, xvars, svars>>

\* for future in as_completed(futures): append_row_to_csv(row, ...)
CollectRow(i) ==
    /\ script = "uyap"
    /\ pc = "collect"
    /\ futures[i] = "ok"
    /\ CSV_FILE' = append_row_to_csv(CSV_FILE, i)
    /\ doc_id' = i
    /\ pc' = "mark"
    /\ UNCHANGED <<page_number, pages_done, ids_downloaded, metadata_by_id, futures,
                   PROGRESS_FILE, run, loaded, fetched, downloads, page_records,
                   abandoned>>
    /\ UNCHANGED <<script, once, zvars, killedP, prev_done, hvars, xvars, svars>>

\* ids_downloaded.add(doc_id)
MarkDownloaded ==
    /\ script = "uyap"
    /\ pc = "mark"
    /\ ids_downloaded' = add(ids_downloaded, doc_id)
    /\ futures' = [futures EXCEPT ![doc_id] = "done"]
    /\ doc_id' = NoId
    /\ pc' = "collect"
    /\ UNCHANGED <<page_number, pages_done, metadata_by_id, PROGRESS_FILE, CSV_FILE,
                   run, loaded, fetched, downloads, page_records, abandoned>>
    /\ UNCHANGED <<script, once, zvars, killedP, prev_done, hvars, xvars, svars>>

\* mutation: the collect loop may end before the futures are done
all_collected_early(uncollected) == TRUE

\* as_completed is exhausted once every submitted future has been yielded
all_collected(uncollected) == uncollected = {}

\* leaving the with-block after the collect loop
ExitPool ==
    /\ script = "uyap"
    /\ pc = "collect"
    /\ all_collected(Uncollected)
    /\ pc' = "add_page"
    /\ UNCHANGED <<page_number, pages_done, ids_downloaded, metadata_by_id, futures,
                   doc_id, PROGRESS_FILE, CSV_FILE, run, loaded, fetched, downloads,
                   page_records, abandoned>>
    /\ UNCHANGED <<script, once, zvars, killedP, prev_done, hvars, xvars, svars>>

\* ------------------------------------------------------------------------
\* main(): marking the page and save_progress
\* ------------------------------------------------------------------------
\* pages_done.add(page_number)
AddPage ==
    /\ script = "uyap"
    /\ pc = "add_page"
    /\ pages_done' = add(pages_done, page_number)
    /\ pc' = "save_open"
    /\ UNCHANGED <<page_number, ids_downloaded, metadata_by_id, futures, doc_id,
                   PROGRESS_FILE, CSV_FILE, run, loaded, fetched, downloads,
                   page_records, abandoned>>
    /\ UNCHANGED <<script, once, zvars, killedP, prev_done, hvars, xvars, svars>>

\* save_progress: with open(filepath, "w", ...) as f
SaveOpen ==
    /\ script = "uyap"
    /\ pc = "save_open"
    /\ PROGRESS_FILE' = open_w(PROGRESS_FILE)
    /\ pc' = "save_dump"
    /\ UNCHANGED <<page_number, pages_done, ids_downloaded, metadata_by_id, futures,
                   doc_id, CSV_FILE, run, loaded, fetched, downloads, page_records,
                   abandoned>>
    /\ UNCHANGED <<script, once, zvars, killedP, prev_done, hvars, xvars, svars>>

\* save_progress: part of the output of json.dump reaches the file
SaveFlush ==
    /\ script = "uyap"
    /\ pc = "save_dump"
    /\ ~ends_partial(PROGRESS_FILE.text)
    /\ PROGRESS_FILE' = [PROGRESS_FILE EXCEPT !.text = Append(@, Partial)]
    /\ UNCHANGED <<pc, page_number, pages_done, ids_downloaded, metadata_by_id,
                   futures, doc_id, CSV_FILE, run, loaded, fetched, downloads,
                   page_records, abandoned>>
    /\ UNCHANGED <<script, once, zvars, killedP, prev_done, hvars, xvars, svars>>

\* save_progress: json.dump(data, f, ...) completes and the file is closed;
\* the loop goes on to the next page
SaveDump ==
    /\ script = "uyap"
    /\ pc = "save_dump"
    /\ \E data \in save_data(pages_done, ids_downloaded) :
          PROGRESS_FILE' = write_all(PROGRESS_FILE, json_dump(data))
    /\ page_number' = page_number + 1
    /\ metadata_by_id' = {}
    /\ futures' = [i \in Ids |-> "none"]
    /\ pc' = "loop"
    /\ UNCHANGED <<pages_done, ids_downloaded, doc_id, CSV_FILE, run, loaded,
                   fetched, downloads, page_records, abandoned>>
    /\ UNCHANGED <<script, once, zvars, killedP, prev_done, hvars, xvars, svars>>

\* ------------------------------------------------------------------------
\* The process is killed, or has ended, and the script is invoked again
\* ------------------------------------------------------------------------
NewRun ==
    /\ run' = run + 1
    /\ pc' = "load"
    /\ page_number' = 1
    /\ pages_done' = {}
    /\ ids_downloaded' = {}
    /\ metadata_by_id' = {}
    /\ futures' = [i \in Ids |-> "none"]
    /\ doc_id' = NoId
    /\ loaded' = NoLoad
    /\ fetched' = {}
    /\ downloads' = [i \in Ids |-> 0]
    /\ rows_at_start' = Len(CSV_FILE.rows)
    /\ UNCHANGED <<PROGRESS_FILE, CSV_FILE, page_records, abandoned>>
    /\ UNCHANGED <<script, once, zvars, svars, xvars>>

\* a row of the CSV file has its id not yet in the ids_downloaded on disk
UnsavedRows ==
    \E k \in DOMAIN CSV_FILE.rows :
        CSV_FILE.rows[k] \notin {HeaderRow} \cup load_progress(PROGRESS_FILE).ids_downloaded

\* the process is killed at any point of main()
Kill ==
    /\ script = "uyap"
    /\ pc \notin {"finished", "error"}
    /\ run < MaxRuns
    /\ IF pc \in {"add_page", "save_open"}
       THEN killedP' = page_number /\ prev_done' = pages_done \ {page_number}
       ELSE killedP' = 0 /\ prev_done' = {}
    /\ dirty_kill' = (dirty_kill \/ UnsavedRows)
    /\ NewRun

\* the process has ended and the script is started again
Rerun ==
    /\ script = "uyap"
    /\ pc \in {"finished", "error"}
    /\ run < MaxRuns
    /\ killedP' = 0
    /\ prev_done' = {}
    /\ UNCHANGED dirty_kill
    /\ NewRun

\* ------------------------------------------------------------------------
\* Company-list scraper: CompanyScraper (src/ZaubaCorp/scrape.py)
\* ------------------------------------------------------------------------
\* str(n) for n >= 0: the decimal digits
RECURSIVE str(_)
str(n) == IF n < 10 THEN <<n>> ELSE Append(str(n \div 10), n % 10)

\* int(text) for a non-empty digit string
RECURSIVE int(_)
int(t) == IF Len(t) = 1 THEN t[1]
          ELSE 10 * int(SubSeq(t, 1, Len(t) - 1)) + t[Len(t)]

\* mutation: a missing progress file gives page 0
z_load_progress_zero(file) ==
    IF ~file.exists THEN [raised |-> FALSE, page |-> 0]
    ELSE IF file.text = <<>> THEN [raised |-> TRUE, page |-> 0]
    ELSE [raised |-> FALSE, page |-> int(file.text)]

\* CompanyScraper.load_progress: FileNotFoundError gives 1; int("") raises
\* ValueError, which nothing catches
z_load_progress(file) ==
    IF ~file.exists THEN [raised |-> FALSE, page |-> 1]
    ELSE IF file.text = <<>> THEN [raised |-> TRUE, page |-> 0]
    ELSE [raised |-> FALSE, page |-> int(file.text)]

\* count_existing_companies: sum(1 for _ in f) - 1, or 0 without a file
count_existing_companies(csv) == IF csv.exists THEN Len(csv.rows) - 1 ELSE 0

\* batch_size = self.max_workers * 2
batch_size == max_workers * 2

\* mutation: every worker starts at the first page of the batch
range_start_same(cp, i) == cp

\* the page range run() gives to worker i
range_start(cp, i) == cp + (i * (batch_size \div max_workers))
range_end(cp, i) ==
    LET e == range_start(cp, i) + (batch_size \div max_workers) - 1
        end_page == cp + batch_size - 1
    IN IF e > end_page THEN end_page ELSE e

Max(S) == CHOOSE x \in S : \A y \in S : y <= x

\* n rows of page p; the header row is 0
RowsOf(p, n) == [k \in 1..n |-> p]

ZInitFiles ==
    { <<NoFile, [exists |-> FALSE, rows |-> <<>>]>>,
      <<[exists |-> TRUE, text |-> <<>>], [exists |-> FALSE, rows |-> <<>>]>> }

InitZ ==
    /\ script = "zauba"
    /\ pc = "z_load"
    /\ current_page = 0
    /\ companies_found = 0
    /\ completed_pages = {}
    /\ results_queue = <<>>
    /\ workers = [w \in Workers |-> NoTask]
    /\ \E f \in ZInitFiles : PROGRESS_TXT = f[1] /\ COMPANIES_CSV = f[2]
    /\ batch_start = 0
    /\ z_fetched = {}
    /\ z_killed = 0
    /\ once = NoLoad
    /\ page_number = 1
    /\ pages_done = {}
    /\ ids_downloaded = {}
    /\ metadata_by_id = {}
    /\ futures = [i \in Ids |-> "none"]
    /\ doc_id = NoId
    /\ PROGRESS_FILE = NoFile
    /\ CSV_FILE = [exists |-> FALSE, rows |-> <<>>]
    /\ run = 1
    /\ loaded = NoLoad
    /\ fetched = {}
    /\ downloads = [i \in Ids |-> 0]
    /\ page_records = [p \in Pages |-> {}]
    /\ abandoned = [p \in Pages |-> {}]
    /\ killedP = 0
    /\ prev_done = {}
    /\ HQuiet
    /\ FQuiet
    /\ NQuiet
    /\ RQuiet
    /\ SQuiet

\* __init__: self.current_page = self.load_progress()
Z_Load ==
    /\ script = "zauba"
    /\ pc = "z_load"
    /\ LET r == z_load_progress(PROGRESS_TXT) IN
        IF r.raised
        THEN pc' = "error" /\ UNCHANGED current_page
        ELSE pc' = "z_count" /\ current_page' = r.page
    /\ UNCHANGED <<companies_found, completed_pages, results_queue, workers,
                   PROGRESS_TXT, COMPANIES_CSV, batch_start, z_fetched, z_killed>>
    /\ UNCHANGED <<script, once, run, uvars, killedP, prev_done, hvars, xvars, svars>>

\* run(): self.companies_found = self.count_existing_companies()
Z_Count ==
    /\ script = "zauba"
    /\ pc = "z_count"
    /\ companies_found' = count_existing_companies(COMPANIES_CSV)
    /\ pc' = "z_while"
    /\ UNCHANGED <<current_page, completed_pages, results_queue, workers,
                   PROGRESS_TXT, COMPANIES_CSV, batch_start, z_fetched, z_killed>>
    /\ UNCHANGED <<script, once, run, uvars, killedP, prev_done, hvars, xvars, svars>>

\* while self.companies_found < self.total_companies_target: false
Z_Done ==
    /\ script = "zauba"
    /\ pc = "z_while"
    /\ companies_found >= total_companies_target
    /\ pc' = "finished"
    /\ UNCHANGED <<zvars, script, once, run, uvars, killedP, prev_done, hvars, xvars, svars>>

\* the with-block is entered and one process_page_range per worker is submitted
Z_Submit ==
    /\ script = "zauba"
    /\ pc = "z_while"
    /\ companies_found < total_companies_target
    /\ current_page + batch_size - 1 <= MaxPageZ
    /\ workers' = [w \in Workers |->
                     [state |-> "ready", page |-> range_start(current_page, w),
                      end |-> range_end(current_page, w)]]
    /\ completed_pages' = {}
    /\ batch_start' = current_page
    /\ pc' = "z_collect"
    /\ UNCHANGED <<current_page, companies_found, results_queue, PROGRESS_TXT,
                   COMPANIES_CSV, z_fetched, z_killed>>
    /\ UNCHANGED <<script, once, run, uvars, killedP, prev_done, hvars, xvars, svars>>

\* process_page_range: companies = self.scrape_page(page) is called
Z_BeginScrape(w) ==
    /\ script = "zauba"
    /\ workers[w].state = "ready"
    /\ workers' = [workers EXCEPT ![w].state = "fetching"]
    /\ z_fetched' = add(z_fetched, workers[w].page)
    /\ UNCHANGED <<pc, current_page, companies_found, completed_pages, results_queue,
                   PROGRESS_TXT, COMPANIES_CSV, batch_start, z_killed>>
    /\ UNCHANGED <<script, once, run, uvars, killedP, prev_done, hvars, xvars, svars>>

\* process_page_range: scrape_page returns n companies (0: None or an
\* empty list, which is not put on the queue), then the next page of the range
Z_EndScrape(w) ==
    /\ script = "zauba"
    /\ workers[w].state = "fetching"
    /\ \E n \in 0..MaxCompanies :
        results_queue' = IF n > 0
                         THEN Append(results_queue, [page |-> workers[w].page, n |-> n])
                         ELSE results_queue
    /\ workers' = [workers EXCEPT
                     ![w].state = IF workers[w].page + 1 > workers[w].end
                                  THEN "finished" ELSE "ready",
                     ![w].page = @ + 1]
    /\ UNCHANGED <<pc, current_page, companies_found, completed_pages, PROGRESS_TXT,
                   COMPANIES_CSV, batch_start, z_fetched, z_killed>>
    /\ UNCHANGED <<script, once, run, uvars, killedP, prev_done, hvars, xvars, svars>>

\* while len(completed_pages) < batch_size
collecting(completed) == Cardinality(completed) < batch_size

\* save_companies_batch: the file does not exist and is opened with mode 'w'
Z_CsvCreate ==
    /\ script = "zauba"
    /\ pc = "z_collect"
    /\ collecting(completed_pages)
    /\ results_queue # <<>>
    /\ ~COMPANIES_CSV.exists
    /\ COMPANIES_CSV' = [exists |-> TRUE, rows |-> <<>>]
    /\ pc' = "z_csv_header"
    /\ UNCHANGED <<current_page, companies_found, completed_pages, results_queue,
                   workers, PROGRESS_TXT, batch_start, z_fetched, z_killed>>
    /\ UNCHANGED <<script, once, run, uvars, killedP, prev_done, hvars, xvars, svars>>

\* results_queue.get, save_companies_batch (header first if the file was
\* just created), companies_found += len(companies), completed_pages.add(page)
Z_Get ==
    /\ script = "zauba"
    /\ \/ pc = "z_csv_header"
       \/ pc = "z_collect" /\ collecting(completed_pages) /\ COMPANIES_CSV.exists
    /\ results_queue # <<>>
    /\ LET item == Head(results_queue)
           header == IF pc = "z_csv_header" THEN <<0>> ELSE <<>>
       IN /\ COMPANIES_CSV' = [exists |-> TRUE,
                               rows |-> COMPANIES_CSV.rows \o header \o RowsOf(item.page, item.n)]
          /\ companies_found' = companies_found + item.n
          /\ completed_pages' = add(completed_pages, item.page)
    /\ results_queue' = Tail(results_queue)
    /\ pc' = "z_collect"
    /\ UNCHANGED <<current_page, workers, PROGRESS_TXT, batch_start, z_fetched, z_killed>>
    /\ UNCHANGED <<script, once, run, uvars, killedP, prev_done, hvars, xvars, svars>>

\* results_queue.get(timeout=60) raises queue.Empty: break
Z_Timeout ==
    /\ script = "zauba"
    /\ pc = "z_collect"
    /\ collecting(completed_pages)
    /\ results_queue = <<>>
    /\ pc' = "z_join"
    /\ UNCHANGED <<zvars, script, once, run, uvars, killedP, prev_done, hvars, xvars, svars>>

\* the collect loop ends with batch_size completed pages
Z_Full ==
    /\ script = "zauba"
    /\ pc = "z_collect"
    /\ ~collecting(completed_pages)
    /\ pc' = "z_join"
    /\ UNCHANGED <<zvars, script, once, run, uvars, killedP, prev_done, hvars, xvars, svars>>

\* mutation: the with-block is left without waiting for the workers
pool_idle_never_waits(ws) == TRUE

\* leaving the with-block: executor.shutdown(wait=True)
pool_idle(ws) == \A w \in Workers : ws[w].state \in {"finished", "none"}

Z_Join ==
    /\ script = "zauba"
    /\ pc = "z_join"
    /\ pool_idle(workers)
    /\ workers' = [w \in Workers |-> NoTask]
    /\ pc' = "z_advance"
    /\ UNCHANGED <<current_page, companies_found, completed_pages, results_queue,
                   PROGRESS_TXT, COMPANIES_CSV, batch_start, z_fetched, z_killed>>
    /\ UNCHANGED <<script, once, run, uvars, killedP, prev_done, hvars, xvars, svars>>

\* mutation: a batch without a completed page is started over
next_current_page_stay(cp, completed) ==
    IF completed # {} THEN Max(completed) + 1 ELSE cp

\* self.current_page = max(completed_pages) + 1 if completed_pages
\*                     else self.current_page + batch_size
next_current_page(cp, completed) ==
    IF completed # {} THEN Max(completed) + 1 ELSE cp + batch_size

Z_Advance ==
    /\ script = "zauba"
    /\ pc = "z_advance"
    /\ current_page' = next_current_page(current_page, completed_pages)
    /\ pc' = "z_save_open"
    /\ UNCHANGED <<companies_found, completed_pages, results_queue, workers,
                   PROGRESS_TXT, COMPANIES_CSV, batch_start, z_fetched, z_killed>>
    /\ UNCHANGED <<script, once, run, uvars, killedP, prev_done, hvars, xvars, svars>>

\* CompanyScraper.save_progress: with open(self.progress_file, 'w') as f
Z_SaveOpen ==
    /\ script = "zauba"
    /\ pc = "z_save_open"
    /\ PROGRESS_TXT' = [exists |-> TRUE, text |-> <<>>]
    /\ pc' = "z_save_write"
    /\ UNCHANGED <<current_page, companies_found, completed_pages, results_queue,
                   workers, COMPANIES_CSV, batch_start, z_fetched, z_killed>>
    /\ UNCHANGED <<script, once, run, uvars, killedP, prev_done, hvars, xvars, svars>>

\* CompanyScraper.save_progress: f.write(str(self.current_page)), close
Z_SaveWrite ==
    /\ script = "zauba"
    /\ pc = "z_save_write"
    /\ PROGRESS_TXT' = [exists |-> TRUE, text |-> str(current_page)]
    /\ pc' = "z_while"
    /\ UNCHANGED <<current_page, companies_found, completed_pages, results_queue,
                   workers, COMPANIES_CSV, batch_start, z_fetched, z_killed>>
    /\ UNCHANGED <<script, once, run, uvars, killedP, prev_done, hvars, xvars, svars>>

Z_NewRun ==
    /\ run' = run + 1
    /\ pc' = "z_load"
    /\ current_page' = 0
    /\ companies_found' = 0
    /\ completed_pages' = {}
    /\ results_queue' = <<>>
    /\ workers' = [w \in Workers |-> NoTask]
    /\ batch_start' = 0
    /\ z_fetched' = {}
    /\ UNCHANGED <<PROGRESS_TXT, COMPANIES_CSV>>
    /\ UNCHANGED <<script, once, uvars, killedP, prev_done, hvars, xvars, svars>>

\* the process is killed at any point
Z_Kill ==
    /\ script = "zauba"
    /\ pc \notin {"finished", "error"}
    /\ run < MaxRuns
    /\ z_killed' = IF pc \in {"z_advance", "z_save_open"} THEN batch_start ELSE 0
    /\ Z_NewRun

\* the process has ended and the script is started again
Z_Rerun ==
    /\ script = "zauba"
    /\ pc \in {"finished", "error"}
    /\ run < MaxRuns
    /\ z_killed' = 0
    /\ Z_NewRun

\* ------------------------------------------------------------------------
\* save_progress and load_progress exercised on their own
\* ------------------------------------------------------------------------
\* page numbers of the progress states tried
MaxPageRT == 3
RTPages == 1..MaxPageRT

\* a progress file left by an earlier save
OldFile == [exists |-> TRUE,
            text |-> <<json_dump([pages_done |-> <<1>>, ids_downloaded |-> <<"a">>])>>]

\* save_progress as a whole
save_progress(pd, ids, file) ==
    {write_all(open_w(file), json_dump(data)) : data \in save_data(pd, ids)}

InitRT ==
    /\ script = "roundtrip"
    /\ pc = "rt_start"
    /\ pages_done \in SUBSET RTPages
    /\ ids_downloaded \in SUBSET Ids
    /\ PROGRESS_FILE \in {NoFile, OldFile}
    /\ once = NoLoad
    /\ page_number = 1
    /\ metadata_by_id = {}
    /\ futures = [i \in Ids |-> "none"]
    /\ doc_id = NoId
    /\ CSV_FILE = [exists |-> FALSE, rows |-> <<>>]
    /\ run = 1
    /\ loaded = NoLoad
    /\ fetched = {}
    /\ downloads = [i \in Ids |-> 0]
    /\ page_records = [p \in Pages |-> {}]
    /\ abandoned = [p \in Pages |-> {}]
    /\ killedP = 0
    /\ prev_done = {}
    /\ HQuiet
    /\ FQuiet
    /\ NQuiet
    /\ RQuiet
    /\ SQuiet
    /\ ZQuiet

\* save_progress({"pages_done": pages_done, "ids_downloaded": ids_downloaded})
RT_Save ==
    /\ script = "roundtrip"
    /\ pc = "rt_start"
    /\ PROGRESS_FILE' \in save_progress(pages_done, ids_downloaded, PROGRESS_FILE)
    /\ pc' = "rt_saved"
    /\ UNCHANGED <<zvars, killedP, prev_done, hvars, xvars, svars, script, once, page_number, pages_done, ids_downloaded,
                   metadata_by_id, futures, doc_id, CSV_FILE, run, loaded, fetched,
                   downloads, page_records, abandoned>>

\* load_progress()
RT_Load ==
    /\ script = "roundtrip"
    /\ pc = "rt_saved"
    /\ loaded' = load_progress(PROGRESS_FILE)
    /\ pc' = "rt_loaded"
    /\ UNCHANGED <<zvars, killedP, prev_done, hvars, xvars, svars, script, once, page_number, pages_done, ids_downloaded,
                   metadata_by_id, futures, doc_id, PROGRESS_FILE, CSV_FILE, run,
                   fetched, downloads, page_records, abandoned>>

\* the commit of a page: ids_downloaded.add for each unit, pages_done.add,
\* save_progress
commit(pd, ids, file, page, units) ==
    {[pages_done |-> add(pd, page), ids_downloaded |-> ids \cup units, file |-> f] :
        f \in save_progress(add(pd, page), ids \cup units, file)}

\* a first commit, of any page and units
RT_Commit ==
    /\ script = "roundtrip"
    /\ pc = "rt_loaded"
    /\ \E page \in RTPages, units \in SUBSET Ids :
        /\ page_number' = page
        /\ metadata_by_id' = units
        /\ \E c \in commit(pages_done, ids_downloaded, PROGRESS_FILE, page, units) :
            /\ pages_done' = c.pages_done
            /\ ids_downloaded' = c.ids_downloaded
            /\ PROGRESS_FILE' = c.file
            /\ once' = load_progress(c.file)
    /\ pc' = "rt_committed"
    /\ UNCHANGED <<zvars, killedP, prev_done, hvars, xvars, svars, script, futures, doc_id, CSV_FILE, run, loaded, fetched,
                   downloads, page_records, abandoned>>

\* the same commit again
RT_Recommit ==
    /\ script = "roundtrip"
    /\ pc = "rt_committed"
    /\ \E c \in commit(pages_done, ids_downloaded, PROGRESS_FILE, page_number, metadata_by_id) :
        /\ pages_done' = c.pages_done
        /\ ids_downloaded' = c.ids_downloaded
        /\ PROGRESS_FILE' = c.file
    /\ pc' = "rt_recommitted"
    /\ UNCHANGED <<zvars, killedP, prev_done, hvars, xvars, svars, script, once, page_number, metadata_by_id, futures, doc_id,
                   CSV_FILE, run, loaded, fetched, downloads, page_records, abandoned>>

NextRT == RT_Save \/ RT_Load \/ RT_Commit \/ RT_Recommit

SpecRT == InitRT /\ [][NextRT]_vars

\* ------------------------------------------------------------------------
\* CompanyScraper.process_page_range and scrape_page of one worker, attempt
\* by attempt (src/ZaubaCorp/scrape.py)
\* ------------------------------------------------------------------------
\* how the site answers every request for a page:
\*   ok               - 200, a table with company rows
\*   empty            - 200, a table without company rows
\*   no_table         - 200, HTML without the table
\*   retryable_status - a 429 or 5xx status
\*   fatal_status     - a 4xx status other than 429
\*   timeout          - requests.post raises (timeout, connection error)
\*   unparseable      - 200, a body response.json()["browserHtml"] raises on
\*   flaky            - any of these, request by request
SiteKinds == {"ok", "empty", "no_table", "retryable_status", "fatal_status",
              "timeout", "unparseable", "flaky"}
Retryable == {"retryable_status", "timeout"}
Fatal == {"fatal_status", "unparseable"}

\* what one request of scrape_page can come to
Outcomes(kind) ==
    CASE kind = "ok" -> {"companies"}
      [] kind = "empty" -> {"no_rows"}
      [] kind = "no_table" -> {"no_table"}
      [] kind \in {"retryable_status", "fatal_status"} -> {"status"}
      [] kind \in {"timeout", "unparseable"} -> {"exception"}
      [] OTHER -> {"companies", "no_rows", "no_table", "status", "exception"}

\* mutation: a fourth attempt is made
attempt_range_more == 0..3

\* for attempt in range(3)
attempt_range == 0..2

\* mutation: the attempt number does not advance
next_attempt_same(a) == a

\* the next value of the for loop
next_attempt(a) == a + 1

\* mutation: no outcome leads to another attempt
retries_none(outcome) == FALSE

\* the outcomes after which the for loop goes to its next attempt: a status
\* other than 200 (continue) and an exception (except Exception)
retries(outcome) == outcome \in {"status", "exception"}

\* if companies: a non-empty list
truthy(r) == r = "companies"

ScrapeQuiet ==
    /\ once = NoLoad
    /\ page_number = 1
    /\ pages_done = {}
    /\ ids_downloaded = {}
    /\ metadata_by_id = {}
    /\ futures = [i \in Ids |-> "none"]
    /\ doc_id = NoId
    /\ PROGRESS_FILE = NoFile
    /\ CSV_FILE = [exists |-> FALSE, rows |-> <<>>]
    /\ run = 1
    /\ loaded = NoLoad
    /\ fetched = {}
    /\ downloads = [i \in Ids |-> 0]
    /\ page_records = [p \in Pages |-> {}]
    /\ abandoned = [p \in Pages |-> {}]
    /\ killedP = 0
    /\ prev_done = {}
    /\ HQuiet
    /\ FQuiet
    /\ NQuiet
    /\ RQuiet
    /\ ZQuiet

\* executor.submit(self.process_page_range, start_page, end_page) for one
\* worker of the first batch
InitS ==
    /\ script = "scrape"
    /\ pc = "sp_for"
    /\ \E i \in Workers :
          /\ pr_page = range_start(1, i)
          /\ pr_end_page = range_end(1, i)
    /\ attempt = 0
    /\ site \in [pr_page..pr_end_page -> SiteKinds]
    /\ requests_of = [p \in pr_page..pr_end_page |-> 0]
    /\ sleeps_of = [p \in pr_page..pr_end_page |-> <<>>]
    /\ returned = [p \in pr_page..pr_end_page |-> "pending"]
    /\ ScrapeQuiet

\* for page in range(start_page, end_page + 1): self.scrape_page(page) is called
SP_Call ==
    /\ script = "scrape"
    /\ pc = "sp_for"
    /\ pr_page <= pr_end_page
    /\ attempt' = 0
    /\ pc' = "sp_request"
    /\ UNCHANGED <<pr_page, pr_end_page, site, requests_of, sleeps_of, returned>>
    /\ UNCHANGED <<script, once, run, uvars, zvars, killedP, prev_done, hvars, xvars>>

\* one pass of the try block: requests.post and what follows it
SP_Request ==
    /\ script = "scrape"
    /\ pc = "sp_request"
    /\ requests_of[pr_page] < MaxRequests
    /\ requests_of' = [requests_of EXCEPT ![pr_page] = @ + 1]
    /\ \E outcome \in Outcomes(site[pr_page]) :
          IF retries(outcome)
          THEN /\ pc' = IF outcome = "status" THEN "sp_status" ELSE "sp_except"
               /\ UNCHANGED returned
          ELSE \* return None (no table) or return companies
               /\ returned' = [returned EXCEPT ![pr_page] =
                                  CASE outcome = "companies" -> "companies"
                                    [] outcome = "no_rows" -> "empty_list"
                                    [] OTHER -> "None"]
               /\ pc' = "sp_put"
    /\ UNCHANGED <<pr_page, pr_end_page, attempt, site, sleeps_of>>
    /\ UNCHANGED <<script, once, run, uvars, zvars, killedP, prev_done, hvars, xvars>>

\* the for loop of scrape_page takes its next attempt, or is exhausted and
\* the function returns None
SP_NextAttempt ==
    IF next_attempt(attempt) \in attempt_range
    THEN /\ attempt' = next_attempt(attempt)
         /\ pc' = "sp_request"
         /\ UNCHANGED returned
    ELSE /\ returned' = [returned EXCEPT ![pr_page] = "None"]
         /\ pc' = "sp_put"
         /\ UNCHANGED attempt

\* if response.status_code != 200: logging.error; time.sleep(2 ** attempt); continue
SP_StatusBackoff ==
    /\ script = "scrape"
    /\ pc = "sp_status"
    /\ sleeps_of' = [sleeps_of EXCEPT ![pr_page] = Append(@, 2 ^ attempt)]
    /\ SP_NextAttempt
    /\ UNCHANGED <<pr_page, pr_end_page, site, requests_of>>
    /\ UNCHANGED <<script, once, run, uvars, zvars, killedP, prev_done, hvars, xvars>>

\* except Exception: logging.error; if attempt < 2: time.sleep(2 ** attempt)
SP_ExceptBackoff ==
    /\ script = "scrape"
    /\ pc = "sp_except"
    /\ sleeps_of' = IF attempt < 2
                    THEN [sleeps_of EXCEPT ![pr_page] = Append(@, 2 ^ attempt)]
                    ELSE sleeps_of
    /\ SP_NextAttempt
    /\ UNCHANGED <<pr_page, pr_end_page, site, requests_of>>
    /\ UNCHANGED <<script, once, run, uvars, zvars, killedP, prev_done, hvars, xvars>>

\* if companies: self.results_queue.put((page, companies)); time.sleep(1)
SP_Put ==
    /\ script = "scrape"
    /\ pc = "sp_put"
    /\ results_queue' = IF truthy(returned[pr_page])
                        THEN Append(results_queue, [page |-> pr_page, n |-> 1])
                        ELSE results_queue
    /\ pr_page' = pr_page + 1
    /\ pc' = "sp_for"
    /\ UNCHANGED <<pr_end_page, attempt, site, requests_of, sleeps_of, returned>>
    /\ UNCHANGED <<current_page, companies_found, completed_pages, workers,
                   PROGRESS_TXT, COMPANIES_CSV, batch_start, z_fetched, z_killed>>
    /\ UNCHANGED <<script, once, run, uvars, killedP, prev_done, hvars, xvars>>

\* the range is exhausted: process_page_range returns
SP_Return ==
    /\ script = "scrape"
    /\ pc = "sp_for"
    /\ pr_page > pr_end_page
    /\ pc' = "sp_done"
    /\ UNCHANGED svars
    /\ UNCHANGED <<script, once, run, uvars, zvars, killedP, prev_done, hvars, xvars>>

NextS ==
    \/ SP_Call \/ SP_Request \/ SP_StatusBackoff \/ SP_ExceptBackoff
    \/ SP_Put \/ SP_Return

\* the worker thread keeps running: every request ends (timeout=30) and
\* every sleep is finite
SpecScrape == InitS /\ [][NextS]_vars /\ WF_vars(NextS)

\* ------------------------------------------------------------------------
\* The remote fetchers zyte_request (src/UYAP Turkish Court Records/
\* scrape.py) and zyte_extract (src/REPUBLIC OF TURKEY OFFICIAL GAZETTE/
\* scrape.py), one call at a time
\* ------------------------------------------------------------------------
Fetchers == {"zyte_request", "zyte_extract"}

\* payload options: zyte_request looks at httpResponseBody only;
\* zyte_extract is called with browserHtml, screenshot or httpResponseBody
Payloads(f) ==
    IF f = "zyte_request" THEN {{}, {"httpResponseBody"}}
    ELSE {{"browserHtml"}, {"screenshot"}, {"httpResponseBody"}}

\* response bodies: not JSON at all, or a JSON object whose httpResponseBody
\* is absent, empty, base64 text or text that is not base64
Bodies == {"not_json", "no_body", "empty_body", "b64_body", "bad_b64_body"}

\* what requests.post does: it raises, or returns a response; the status
\* codes told apart are success, a client error, rate limiting and a server
\* error
PostOutcomes ==
    {[raises |-> e, status_code |-> 0, body |-> "none"] :
        e \in {"ConnectionError", "Timeout"}}
    \cup {[raises |-> "none", status_code |-> c, body |-> b] :
            c \in {200, 401, 429, 520}, b \in Bodies}

\* resp.raise_for_status() raises HTTPError for a 4xx or 5xx status
raise_for_status(resp) == resp.status_code >= 400

\* if response.status_code == 200
status_ok(resp) == resp.status_code = 200

\* resp.json() raises on a body that is not JSON
json_raises(resp) == resp.body = "not_json"

\* the fetchers are not followed
FetchQuiet ==
    /\ once = NoLoad
    /\ page_number = 1
    /\ pages_done = {}
    /\ ids_downloaded = {}
    /\ metadata_by_id = {}
    /\ futures = [i \in Ids |-> "none"]
    /\ doc_id = NoId
    /\ PROGRESS_FILE = NoFile
    /\ CSV_FILE = [exists |-> FALSE, rows |-> <<>>]
    /\ run = 1
    /\ loaded = NoLoad
    /\ fetched = {}
    /\ downloads = [i \in Ids |-> 0]
    /\ page_records = [p \in Pages |-> {}]
    /\ abandoned = [p \in Pages |-> {}]
    /\ killedP = 0
    /\ prev_done = {}
    /\ HQuiet
    /\ SQuiet
    /\ ZQuiet

\* zyte_request(payload) or zyte_extract(url, ...) is called
InitF ==
    /\ script = "fetch"
    /\ pc = "f_post"
    /\ fetcher \in Fetchers
    /\ payload \in Payloads(fetcher)
    /\ response = "none"
    /\ resp_data = "none"
    /\ f_return = "pending"
    /\ f_raised = "none"
    /\ NQuiet
    /\ RQuiet
    /\ FetchQuiet

\* requests.post(...): no try around it in either function
F_Post ==
    /\ script = "fetch"
    /\ pc = "f_post"
    /\ \E r \in PostOutcomes :
          IF r.raises # "none"
          THEN /\ f_raised' = r.raises
               /\ pc' = "f_escaped"
               /\ UNCHANGED response
          ELSE /\ response' = r
               /\ pc' = "f_status"
               /\ UNCHANGED f_raised
    /\ UNCHANGED <<fetcher, payload, resp_data, f_return, nvars, rvars>>
    /\ UNCHANGED <<script, once, run, uvars, zvars, killedP, prev_done, hvars, svars>>

\* zyte_request: resp.raise_for_status()
F_RaiseForStatus ==
    /\ script = "fetch"
    /\ pc = "f_status"
    /\ fetcher = "zyte_request"
    /\ IF raise_for_status(response)
       THEN f_raised' = "HTTPError" /\ pc' = "f_escaped"
       ELSE UNCHANGED f_raised /\ pc' = "f_json"
    /\ UNCHANGED <<fetcher, payload, response, resp_data, f_return, nvars, rvars>>
    /\ UNCHANGED <<script, once, run, uvars, zvars, killedP, prev_done, hvars, svars>>

\* zyte_extract: a status other than 200 is printed and None is returned
F_StatusCheck ==
    /\ script = "fetch"
    /\ pc = "f_status"
    /\ fetcher = "zyte_extract"
    /\ IF status_ok(response)
       THEN UNCHANGED f_return /\ pc' = "f_json"
       ELSE f_return' = "None" /\ pc' = "f_returned"
    /\ UNCHANGED <<fetcher, payload, response, resp_data, f_raised, nvars, rvars>>
    /\ UNCHANGED <<script, once, run, uvars, zvars, killedP, prev_done, hvars, svars>>

\* resp_data = resp.json(); zyte_extract returns it as it is
F_Json ==
    /\ script = "fetch"
    /\ pc = "f_json"
    /\ IF json_raises(response)
       THEN /\ f_raised' = "JSONDecodeError"
            /\ pc' = "f_escaped"
            /\ UNCHANGED <<resp_data, f_return>>
       ELSE /\ resp_data' = response.body
            /\ UNCHANGED f_raised
            /\ IF fetcher = "zyte_extract"
               THEN f_return' = "data" /\ pc' = "f_returned"
               ELSE UNCHANGED f_return /\ pc' = "f_decode"
    /\ UNCHANGED <<fetcher, payload, response, nvars, rvars>>
    /\ UNCHANGED <<script, once, run, uvars, zvars, killedP, prev_done, hvars, svars>>

\* zyte_request: if payload.get("httpResponseBody") and "httpResponseBody" in
\* data: base64.b64decode(raw_b64) when raw_b64 is not empty; return data
F_Decode ==
    /\ script = "fetch"
    /\ pc = "f_decode"
    /\ IF "httpResponseBody" \in payload /\ resp_data = "bad_b64_body"
       THEN /\ f_raised' = "binascii.Error"
            /\ pc' = "f_escaped"
            /\ UNCHANGED f_return
       ELSE /\ f_return' = IF "httpResponseBody" \in payload /\ resp_data # "no_body"
                           THEN "data with decodedBody" ELSE "data"
            /\ pc' = "f_returned"
            /\ UNCHANGED f_raised
    /\ UNCHANGED <<fetcher, payload, response, resp_data, nvars, rvars>>
    /\ UNCHANGED <<script, once, run, uvars, zvars, killedP, prev_done, hvars, svars>>

NextF == F_Post \/ F_RaiseForStatus \/ F_StatusCheck \/ F_Json \/ F_Decode

\* a call of any of the three remote fetchers
SpecFetch == (InitF \/ InitS) /\ [][NextF \/ NextS]_vars

\* C24 as stated: no exception leaves a call of a remote fetcher; a transport
\* failure and a status that is not a success end in a returned value.
C24_NoExceptionEscapes ==
    /\ f_raised = "none"
    /\ pc # "f_escaped"
    /\ \A p \in DOMAIN returned : returned[p] # "raised"

\* ------------------------------------------------------------------------
\* The news pipeline: main() of src/LLM_Dashboard/data_gen.py with
\* PerplexityClient.query_articles and ClaudeClient.transform_data
\* ------------------------------------------------------------------------
months_2024 == 1..NumMonths

\* what happens inside query_articles: requests.post, raise_for_status or
\* response.json() raises; the answer has no choices; the content of the
\* first choice is empty; the content is text
QueryOutcomes == {"exception", "no_choices", "empty_content", "content"}

\* PerplexityClient.query_articles: the content, or "" after the logged error
query_articles(outcome) == IF outcome = "content" THEN "text" ELSE ""

\* a record of the JSON array, by what its additionalInformation.geolocation
\* is: an object, null ("use null or empty string if not available" in the
\* prompt) or absent
Geolocations == {"object", "null", "absent"}

\* the arrays json.loads may return: up to MaxRecords records of month m
Arrays(m) ==
    UNION {[1..n -> {[month |-> m, geolocation |-> g] : g \in Geolocations}] :
              n \in 0..MaxRecords}

\* what happens inside transform_data: messages.create or json.loads raises,
\* or the fixed text is a JSON array
TransformOutcomes(m) ==
    {[raises |-> TRUE, array |-> <<>>]}
    \cup {[raises |-> FALSE, array |-> a] : a \in Arrays(m)}

\* ClaudeClient.transform_data: the array, or [] after the logged error
transform_data(outcome) == IF outcome.raises THEN <<>> ELSE outcome.array

\* geolocation = additional.get("geolocation", {}); geolocation.get(...)
\* raises AttributeError when the value is not a dict
flatten_raises(records) ==
    \E k \in DOMAIN records : records[k].geolocation \notin {"object", "absent"}

\* the news pipeline starts: master_data = []
InitN ==
    /\ script = "news"
    /\ pc = "n_query"
    /\ month = 1
    /\ perplexity_raw = ""
    /\ master_data = <<>>
    /\ output_files = {}
    /\ failed_months = {}
    /\ contributed = [m \in months_2024 |-> 0]
    /\ FQuiet
    /\ RQuiet
    /\ FetchQuiet

\* for month in months_2024: perplexity_raw = query_articles(...);
\* if not perplexity_raw: continue
N_Query ==
    /\ script = "news"
    /\ pc = "n_query"
    /\ month \in months_2024
    /\ \E outcome \in QueryOutcomes :
          /\ perplexity_raw' = query_articles(outcome)
          /\ failed_months' = IF outcome \in {"exception", "no_choices"}
                              THEN add(failed_months, month) ELSE failed_months
          /\ IF perplexity_raw' = ""
             THEN month' = month + 1 /\ pc' = "n_query"
             ELSE UNCHANGED month /\ pc' = "n_transform"
    /\ UNCHANGED <<master_data, output_files, contributed, fvars, rvars>>
    /\ UNCHANGED <<script, once, run, uvars, zvars, killedP, prev_done, hvars, svars>>

\* transformed_data = transform_data(perplexity_raw); if not
\* transformed_data: continue; master_data.extend(transformed_data)
N_Transform ==
    /\ script = "news"
    /\ pc = "n_transform"
    /\ \E outcome \in TransformOutcomes(month) :
          LET transformed_data == transform_data(outcome)
          IN /\ failed_months' = IF outcome.raises
                                 THEN add(failed_months, month) ELSE failed_months
             /\ master_data' = master_data \o transformed_data
             /\ contributed' = [contributed EXCEPT ![month] = Len(transformed_data)]
    /\ month' = month + 1
    /\ pc' = "n_query"
    /\ UNCHANGED <<perplexity_raw, output_files, fvars, rvars>>
    /\ UNCHANGED <<script, once, run, uvars, zvars, killedP, prev_done, hvars, svars>>

\* after the loop: if not master_data: return
N_LoopEnd ==
    /\ script = "news"
    /\ pc = "n_query"
    /\ month \notin months_2024
    /\ pc' = IF master_data = <<>> THEN "n_exit" ELSE "n_flatten"
    /\ UNCHANGED <<nvars, fvars, rvars>>
    /\ UNCHANGED <<script, once, run, uvars, zvars, killedP, prev_done, hvars, svars>>

\* pd.DataFrame(master_data), process_data, flatten_data,
\* generate_summary_stats: nothing catches what flatten_data raises
N_Flatten ==
    /\ script = "news"
    /\ pc = "n_flatten"
    /\ pc' = IF flatten_raises(master_data) THEN "n_raised" ELSE "n_write"
    /\ UNCHANGED <<nvars, fvars, rvars>>
    /\ UNCHANGED <<script, once, run, uvars, zvars, killedP, prev_done, hvars, svars>>

\* dashboard_df.to_csv(csv_filename); json.dump(summary_stats_modified, f)
N_Write ==
    /\ script = "news"
    /\ pc = "n_write"
    /\ output_files' = {"clean_scam_center_data.csv", "dashboard_summary.json"}
    /\ pc' = "n_exit"
    /\ UNCHANGED <<month, perplexity_raw, master_data, failed_months, contributed, fvars, rvars>>
    /\ UNCHANGED <<script, once, run, uvars, zvars, killedP, prev_done, hvars, svars>>

NextN == N_Query \/ N_Transform \/ N_LoopEnd \/ N_Flatten \/ N_Write

SpecNews == InitN /\ [][NextN]_vars

\* C28 as stated: a month whose query or transformation failed adds no
\* record, no failure ends the loop before the last month, and when main()
\* is over the output files are written if and only if some month yielded
\* records.
C28_FailedMonthsAndOutput ==
    /\ \A m \in failed_months : contributed[m] = 0
    /\ pc \in {"n_exit", "n_raised", "n_flatten", "n_write"} => month = NumMonths + 1
    /\ pc \in {"n_exit", "n_raised"} => ((output_files # {}) <=> (master_data # <<>>))

\* ------------------------------------------------------------------------
\* The company-registry scraper: src/Istanbul Chamber of Commerce Company
\* Search/scrape.py. The four nested loops are walked as one sequence of
\* combinations.
\* ------------------------------------------------------------------------
Combos == 1..NumCombos

\* what the search of a combination does: the response arrives and parses;
\* expect_response times out; the click or resp_info.value.json() raises
SearchOutcomes == {"response", "timeout", "exception"}

\* what one pass of the loop of collect_all_pages_data does:
\*   wait_error - page.wait_for_timeout(1000) raises (line 59, before the try)
\*   disabled   - the next button has the class k-state-disabled
\*   response   - the click returns a response that parses
\*   timeout    - expect_response times out
\*   exception  - anything else raises inside the try
PaginationOutcomes == {"wait_error", "disabled", "response", "timeout", "exception"}

\* mutation: an error in a combination ends the loops
next_combination_stop(c) == NumCombos + 1

\* the loops go on with the next combination
next_combination(c) == c + 1

\* mutation: the initial response is left out of the pages
combine_additional_only(initial_data, additional_data) == additional_data

\* all_data = [initial_data]; if additional_data: all_data.extend(additional_data)
combine(initial_data, additional_data) == <<initial_data>> \o additional_data

\* the ERROR entry written by the except branch of the combination
error_entry(c) == [kind |-> "ERROR", combo |-> c, total_pages |-> 0]

\* the entries of combination c in the log
entries(log, c) == {k \in DOMAIN log : log[k].combo = c}

\* the script starts: the log file is new
InitR ==
    /\ script = "registry"
    /\ pc = "r_select"
    /\ combo = 1
    /\ all_data = <<>>
    /\ page_num = 0
    /\ log_file = <<>>
    /\ saved = <<>>
    /\ events_of = [c \in Combos |-> {}]
    /\ responses_of = [c \in Combos |-> 0]
    /\ FQuiet
    /\ NQuiet
    /\ FetchQuiet

\* sinif_text = select_option(...); if not sinif_text: continue
R_Select ==
    /\ script = "registry"
    /\ pc = "r_select"
    /\ combo \in Combos
    /\ \E visible \in BOOLEAN :
          IF visible
          THEN /\ pc' = "r_search"
               /\ events_of' = [events_of EXCEPT ![combo] = add(@, "selected")]
               /\ UNCHANGED combo
          ELSE /\ pc' = "r_select"
               /\ events_of' = [events_of EXCEPT ![combo] = add(@, "skipped")]
               /\ combo' = combo + 1
    /\ UNCHANGED <<all_data, page_num, log_file, saved, responses_of, fvars, nvars>>
    /\ UNCHANGED <<script, once, run, uvars, zvars, killedP, prev_done, hvars, svars>>

\* with page.expect_response(...): page.click(search_button_selector);
\* initial_data = resp_info.value.json(); collect_all_pages_data() starts
R_Search ==
    /\ script = "registry"
    /\ pc = "r_search"
    /\ \E o \in SearchOutcomes :
          IF o = "response"
          THEN /\ all_data' = <<>>
               /\ page_num' = 1
               /\ pc' = "r_paginate"
               /\ UNCHANGED <<combo, log_file, events_of>>
          ELSE /\ log_file' = Append(log_file, error_entry(combo))
               /\ events_of' = [events_of EXCEPT ![combo] = add(@, "search_error")]
               /\ combo' = next_combination(combo)
               /\ pc' = "r_select"
               /\ UNCHANGED <<all_data, page_num>>
    /\ UNCHANGED <<saved, responses_of, fvars, nvars>>
    /\ UNCHANGED <<script, once, run, uvars, zvars, killedP, prev_done, hvars, svars>>

\* one pass of while True in collect_all_pages_data
R_NextPage ==
    /\ script = "registry"
    /\ pc = "r_paginate"
    /\ \E o \in PaginationOutcomes :
          CASE o = "response" ->
                 /\ Len(all_data) < MaxSitePages
                 /\ all_data' = Append(all_data, page_num + 1)
                 /\ page_num' = page_num + 1
                 /\ responses_of' = [responses_of EXCEPT ![combo] = @ + 1]
                 /\ UNCHANGED <<pc, combo, log_file, events_of>>
            [] o = "disabled" ->
                 /\ pc' = "r_save"
                 /\ UNCHANGED <<all_data, page_num, responses_of, combo, log_file, events_of>>
            [] o \in {"timeout", "exception"} ->
                 /\ pc' = "r_save"
                 /\ events_of' = [events_of EXCEPT ![combo] = add(@, "pagination_error")]
                 /\ UNCHANGED <<all_data, page_num, responses_of, combo, log_file>>
            [] o = "wait_error" ->
                 /\ log_file' = Append(log_file, error_entry(combo))
                 /\ events_of' = [events_of EXCEPT ![combo] = add(@, "wait_error")]
                 /\ combo' = next_combination(combo)
                 /\ pc' = "r_select"
                 /\ UNCHANGED <<all_data, page_num, responses_of>>
    /\ UNCHANGED <<saved, fvars, nvars>>
    /\ UNCHANGED <<script, once, run, uvars, zvars, killedP, prev_done, hvars, svars>>

\* all_data = [initial_data] + additional_data; "total_pages": len(all_data);
\* json.dump(final_data, f), or open raises
R_Save ==
    /\ script = "registry"
    /\ pc = "r_save"
    /\ \E written \in BOOLEAN :
          IF written
          THEN /\ saved' = Append(saved, [combo |-> combo,
                                          total_pages |-> Len(combine(1, all_data)),
                                          pages |-> combine(1, all_data)])
               /\ pc' = "r_log"
               /\ UNCHANGED <<combo, log_file, events_of>>
          ELSE /\ log_file' = Append(log_file, error_entry(combo))
               /\ events_of' = [events_of EXCEPT ![combo] = add(@, "save_error")]
               /\ combo' = next_combination(combo)
               /\ pc' = "r_select"
               /\ UNCHANGED saved
    /\ UNCHANGED <<all_data, page_num, responses_of, fvars, nvars>>
    /\ UNCHANGED <<script, once, run, uvars, zvars, killedP, prev_done, hvars, svars>>

\* the log entry of the saved combination: "Total Pages: {total_pages}",
\* total_pages being the page_num collect_all_pages_data returned
R_Log ==
    /\ script = "registry"
    /\ pc = "r_log"
    /\ log_file' = Append(log_file, [kind |-> "saved", combo |-> combo,
                                     total_pages |-> page_num])
    /\ combo' = combo + 1
    /\ pc' = "r_select"
    /\ UNCHANGED <<all_data, page_num, saved, events_of, responses_of, fvars, nvars>>
    /\ UNCHANGED <<script, once, run, uvars, zvars, killedP, prev_done, hvars, svars>>

\* the loops are over: browser.close()
R_Close ==
    /\ script = "registry"
    /\ pc = "r_select"
    /\ combo \notin Combos
    /\ pc' = "r_done"
    /\ UNCHANGED <<rvars, fvars, nvars>>
    /\ UNCHANGED <<script, once, run, uvars, zvars, killedP, prev_done, hvars, svars>>

NextR == R_Select \/ R_Search \/ R_NextPage \/ R_Save \/ R_Log \/ R_Close

SpecRegistry == InitR /\ [][NextR]_vars

\* combinations the loops have left behind
Over == {c \in Combos : c < combo}

\* C29 as stated, its first part: every combination in which the search or the
\* pagination met an error has an ERROR entry in the log.
C29_Original ==
    \A c \in Over :
        events_of[c] \cap {"search_error", "pagination_error", "wait_error"} # {}
            => \E k \in entries(log_file, c) : log_file[k].kind = "ERROR"

\* C29, amended: an error of the search, of the wait before a next-page
\* click or of the save is written to the log as an ERROR entry, nothing is
\* saved for the combination, and the loops reach every combination; an
\* error inside the try of collect_all_pages_data (timeout or any other
\* exception) and a disabled next button end the pagination with the pages
\* captured so far, and the combination is then saved with them and logged
\* as saved, without an ERROR entry.
C29_ErrorsLoggedOrSwallowed ==
    /\ \A c \in Over :
          events_of[c] \cap {"search_error", "wait_error", "save_error"} # {} =>
             /\ \E k \in entries(log_file, c) : log_file[k].kind = "ERROR"
             /\ \A k \in DOMAIN saved : saved[k].combo # c
    /\ \A c \in Over :
          ("selected" \in events_of[c]
              /\ events_of[c] \cap {"search_error", "wait_error", "save_error"} = {}) =>
             /\ \E k \in DOMAIN saved :
                   saved[k].combo = c /\ Len(saved[k].pages) = 1 + responses_of[c]
             /\ \A k \in entries(log_file, c) : log_file[k].kind = "saved"
    /\ pc \in {"r_save", "r_log"} => Len(all_data) = responses_of[combo]
    /\ pc = "r_done" => \A c \in Combos : events_of[c] # {}

\* the search of the first combination failed and the second was saved
\* with the one page captured before its pagination met an error
C29_Witness ==
    /\ pc = "r_done"
    /\ "search_error" \in events_of[1]
    /\ "pagination_error" \in events_of[2]
    /\ Len(saved) = 1
    /\ Len(saved[1].pages) = 2

\* C35: for every combination that was saved, the total_pages of the saved
\* JSON metadata is the number of pages in the file and the number of
\* captured responses (the initial one and one per next-page click that
\* returned a response), and the "Total Pages" of its log entry, once
\* written, is the same number.
C35_TotalPagesAgree ==
    /\ \A j \in DOMAIN saved :
          /\ saved[j].total_pages = Len(saved[j].pages)
          /\ saved[j].total_pages = 1 + responses_of[saved[j].combo]
    /\ \A k \in DOMAIN log_file :
          log_file[k].kind = "saved" =>
             \E j \in DOMAIN saved :
                /\ saved[j].combo = log_file[k].combo
                /\ saved[j].total_pages = log_file[k].total_pages
    /\ pc = "r_log" => page_num = saved[Len(saved)].total_pages

\* a combination with two captured responses was saved and logged
C35_Witness ==
    \E k \in DOMAIN log_file :
        /\ log_file[k].kind = "saved"
        /\ log_file[k].total_pages = 2
        /\ responses_of[log_file[k].combo] = 1

\* ------------------------------------------------------------------------
\* Properties
\* ------------------------------------------------------------------------
\* the progress state a run would load from the disk as it is now
persisted == load_progress(PROGRESS_FILE)

\* C1: no document id of the ids_downloaded loaded at the start of a run is
\* passed to download_document during that run, whatever page returns it.
C1_LoadedIdsNeverDownloaded ==
    \A i \in loaded.ids_downloaded : downloads[i] = 0

\* a loaded id came back on a page of this run and the page's downloads
\* have been submitted
C1_Witness ==
    /\ pc = "collect"
    /\ metadata_by_id \cap loaded.ids_downloaded # {}
    /\ \E i \in Ids : futures[i] # "none"

\* C2: no page number of the pages_done loaded at the start of a run is
\* passed to post_aramadetaylist during that run.
C2_LoadedPagesNeverFetched ==
    \A p \in loaded.pages_done : p \notin fetched

\* the loop has gone past a loaded page and fetched another one
C2_Witness ==
    /\ \E p \in loaded.pages_done : page_number > p
    /\ fetched # {}

\* C4: while a download submitted for the current page is still queued or
\* running, the page is neither in the in-memory pages_done nor in the
\* pages_done on disk.
C4_NoPageDoneWhileInFlight ==
    Unsettled # {} =>
        /\ page_number \notin pages_done
        /\ page_number \notin persisted.pages_done

\* a page with settled downloads has been added to pages_done and saved
C4_Witness ==
    /\ pc = "loop"
    /\ \E p \in persisted.pages_done : p \in fetched /\ page_records[p] \cap Ids # {}
    /\ \E i \in Ids : downloads[i] > 0

Fetching == {w \in Workers : workers[w].state = "fetching"}

\* C5: never more than CONCURRENT_REQUESTS downloads of the court-records
\* downloader, and never more than max_workers page fetches of the
\* company-list scraper, run at the same time.
C5_AtMostKInFlight ==
    /\ Cardinality(Running) <= CONCURRENT_REQUESTS
    /\ Cardinality(Fetching) <= max_workers

\* all pool threads are busy and a further download waits in the queue
C5_Witness ==
    /\ Cardinality(Running) = CONCURRENT_REQUESTS
    /\ \E i \in Ids : futures[i] = "queued"

\* C6 as stated: every record of a page in pages_done has its id in
\* ids_downloaded or had its download error logged.
C6_Original ==
    /\ \A p \in pages_done : \A i \in page_records[p] :
          i \in ids_downloaded \/ i \in abandoned[p]
    /\ \A p \in persisted.pages_done : \A i \in page_records[p] :
          i \in persisted.ids_downloaded \/ i \in abandoned[p]

\* C6 amended: every record with a non-empty id of a page in pages_done (in
\* memory or on disk) has its id in ids_downloaded or had its download
\* error logged.
C6_DonePagesAccounted ==
    /\ \A p \in pages_done : \A i \in page_records[p] \ {NoId} :
          i \in ids_downloaded \/ i \in abandoned[p]
    /\ \A p \in persisted.pages_done : \A i \in page_records[p] \ {NoId} :
          i \in persisted.ids_downloaded \/ i \in abandoned[p]

\* a saved page with one record downloaded and one whose download failed
C6_Witness ==
    \E p \in persisted.pages_done :
        /\ page_records[p] \cap persisted.ids_downloaded # {}
        /\ abandoned[p] # {}

\* the file exists and is not a valid progress state: unparseable, or a
\* required key is missing
InvalidState(file) ==
    /\ file.exists
    /\ \/ ~json_load_ok(file)
       \/ file.text[1].keys # {"pages_done", "ids_downloaded"}

\* C3 as stated: after a kill on page P between the collect loop and
\* save_progress, the next run fetches no page before P.
C3_Original ==
    killedP # 0 => \A q \in fetched : q >= killedP

\* C3 amended: after such a kill the next run of the court-records
\* downloader loads the pages_done the killed run had without P, fetches no
\* page of it again, fetches P again and, when it finishes, has fetched every
\* page outside it (P, the pages after P, and the earlier pages whose fetch
\* had failed); the company-list scraper, killed between the collect loop of
\* a batch and save_progress, starts the next run at the first page of that
\* batch and fetches no page before it.
C3_ResumeAfterKill ==
    /\ (killedP # 0 /\ pc # "load") =>
          /\ ~loaded.raised
          /\ loaded.pages_done = prev_done
          /\ fetched \cap prev_done = {}
          /\ (page_number > killedP => killedP \in fetched)
          /\ (pc = "finished" => fetched = Pages \ prev_done)
    /\ (z_killed # 0 /\ pc # "z_load") =>
          /\ pc # "error"
          /\ (batch_start = 0 => current_page = z_killed)
          /\ (batch_start # 0 => batch_start >= z_killed)
          /\ \A q \in z_fetched : q >= z_killed

\* the run after the kill has finished: it skipped a done page and fetched
\* page P again
C3_Witness ==
    /\ killedP # 0
    /\ prev_done # {}
    /\ pc = "finished"
    /\ killedP \in fetched

\* C7 as stated: at every point of save_progress the progress file on disk
\* can be parsed (it is the complete previous or the complete new state).
C7_CrashAtomic ==
    /\ pc \in {"save_open", "save_dump"} => ~load_progress(PROGRESS_FILE).raised
    /\ pc \in {"z_save_open", "z_save_write"} => ~z_load_progress(PROGRESS_TXT).raised

\* C8 as stated: loading a progress file that exists and is not a valid
\* state ends the run with an error.
C8_InvalidFileFailsLoudly ==
    [][/\ (pc = "load" /\ InvalidState(PROGRESS_FILE)) => pc' \in {"error", "load"}
       /\ (pc = "z_load" /\ PROGRESS_TXT.exists /\ PROGRESS_TXT.text = <<>>)
             => pc' \in {"error", "z_load"}]_vars

\* C9: save_progress followed by load_progress returns the saved
\* pages_done and ids_downloaded, as sets (checked under SpecRT).
C9_RoundTrip ==
    pc = "rt_loaded" =>
        /\ ~loaded.raised
        /\ loaded.pages_done = pages_done
        /\ loaded.ids_downloaded = ids_downloaded

\* a state with several pages and ids went through save and load, over a
\* file that already existed
C9_Witness ==
    /\ pc = "rt_loaded"
    /\ Cardinality(pages_done) >= 2
    /\ Cardinality(ids_downloaded) >= 2
    /\ Len(PROGRESS_FILE.text[1].pages_done) >= 2

\* C10: committing the same page and units a second time leaves on disk the
\* same state, as sets, as the first commit did (checked under SpecRT).
C10_CommitIdempotent ==
    pc = "rt_recommitted" =>
        /\ persisted = once
        /\ ~persisted.raised
        /\ persisted.pages_done = pages_done
        /\ persisted.ids_downloaded = ids_downloaded

\* a commit that added a new page and new units was done twice
C10_Witness ==
    /\ pc = "rt_recommitted"
    /\ page_number \in once.pages_done
    /\ metadata_by_id # {}
    /\ metadata_by_id \subseteq once.ids_downloaded
    /\ once.pages_done # {page_number}

\* C12 as stated: a step of the page loop that fetches a page never ends
\* the run: either the page goes on to be processed, or its failure is
\* logged and the loop moves to the next page with pages_done and
\* ids_downloaded unchanged.
C12_PageFailureNeverEndsRun ==
    [][(script = "uyap" /\ pc = "loop" /\ run' = run /\ fetched' # fetched) =>
          \/ pc' \in {"submit", "add_page"}
          \/ /\ pc' = "loop"
             /\ page_number' = page_number + 1
             /\ pages_done' = pages_done
             /\ ids_downloaded' = ids_downloaded]_vars

\* pages of this run whose fetch raised (at the top of the loop every page
\* fetched and processed is in pages_done)
failed_pages == fetched \ pages_done

\* the number of pages just before page_number that failed one after the other
consecutive_failures ==
    Cardinality({p \in failed_pages : \A q \in p..(page_number - 1) : q \in failed_pages})

EmptyPages == {p \in fetched \cap pages_done : page_records[p] = {}}

\* C14 as stated: after a page that returned zero records no page with a
\* higher number is fetched in that run.
C14_Original ==
    \A p \in EmptyPages : \A q \in fetched : q <= p

\* C14 amended: a page with zero records does not stop the run. The
\* court-records downloader marks it done, saves it and goes on, so that a
\* run that reaches the end of the loop has fetched every later page it had
\* not loaded as done; the company-list scraper puts no page with zero
\* companies on the queue.
C14_EmptyPageDoesNotStop ==
    /\ pc = "loop" => EmptyPages \subseteq persisted.pages_done
    /\ pc = "finished" =>
          \A p \in EmptyPages : \A q \in Pages :
              q > p => q \in fetched \/ q \in loaded.pages_done
    /\ \A k \in DOMAIN results_queue : results_queue[k].n > 0

\* a page returned zero records and a later page was fetched and its
\* download made
C14_Witness ==
    \E p \in EmptyPages : \E q \in fetched :
        /\ q > p
        /\ page_records[q] \cap ids_downloaded # {}

\* C15 as stated: within one run download_document is called at most once
\* for any document id.
C15_AtMostOncePerRun ==
    \A i \in Ids : downloads[i] <= 1

\* C17 as stated: a page with a failed download is still marked done and
\* saved, and a unit whose download failed on a page saved as done is not
\* downloaded in a later run.
C17_FailedUnitSettled ==
    /\ pc = "loop" =>
          \A p \in fetched \cap pages_done :
              abandoned[p] # {} => p \in persisted.pages_done
    /\ \A p \in loaded.pages_done : \A i \in abandoned[p] : downloads[i] = 0

\* C20 as stated: no two pages are fetched at the same time and pages
\* settle in increasing order of page number.
C20_Original ==
    /\ Cardinality({workers[w].page : w \in Fetching}) <= 1
    /\ \A j, k \in DOMAIN results_queue :
          j < k => results_queue[j].page < results_queue[k].page
    /\ fetched \cup (pages_done \ loaded.pages_done) \subseteq 1..page_number

\* C20 amended: the court-records downloader handles one page at a time in
\* increasing order (every page fetched or marked done in the run is at
\* most page_number, and every download in flight is of the current page);
\* the company-list scraper fetches up to max_workers pages at the same
\* time, each worker a different page.
C20_PagesInOrder ==
    /\ fetched \cup (pages_done \ loaded.pages_done) \subseteq 1..page_number
    /\ \A i \in Ids : futures[i] # "none" =>
          i \in metadata_by_id /\ i \in page_records[page_number]
    /\ \A v, w \in Fetching : v # w => workers[v].page # workers[w].page

\* two workers of the company-list scraper fetch their pages at the same
\* time while a result already waits on the queue
C20_Witness ==
    /\ Cardinality(Fetching) >= 2
    /\ results_queue # <<>>

\* the rows appended to downloaded_docs.csv in this run
rows_of_run == SubSeq(CSV_FILE.rows, rows_at_start + 1, Len(CSV_FILE.rows))

\* the number of rows of document id i
count(rows, i) == Cardinality({k \in DOMAIN rows : rows[k] = i})

\* C16: at the top of the page loop and at the end of the run, the rows
\* appended in the run are one for each id downloaded in the run and none
\* for any other id; no id ever has two rows appended in one run; and an id
\* has two rows in the file only after a run was killed between the append
\* of a row and the save of its id.
C16_OneRowPerDownload ==
    /\ (script = "uyap" /\ pc \in {"loop", "finished"}) =>
          \A i \in Ids :
              count(rows_of_run, i) =
                  IF i \in ids_downloaded \ loaded.ids_downloaded THEN 1 ELSE 0
    /\ \A i \in Ids : count(rows_of_run, i) <= 1
    /\ (\E i \in Ids : count(CSV_FILE.rows, i) > 1) => dirty_kill

\* a second run without any kill downloaded an id the first run had failed
\* on, next to the row the first run wrote
C16_Witness ==
    /\ pc = "finished"
    /\ run = 2
    /\ ~dirty_kill
    /\ loaded.ids_downloaded # {}
    /\ ids_downloaded \ loaded.ids_downloaded # {}
    /\ rows_at_start >= 2

\* C11: when every request for a page fails with a retryable error,
\* scrape_page stops retrying, returns None for that page and the worker
\* goes on to the next page.
C11_RetryingEnds ==
    \A p \in 1..MaxPageZ :
        (script = "scrape" /\ pr_page = p /\ pc = "sp_request"
            /\ p \in DOMAIN site /\ site[p] \in Retryable)
            ~> (pr_page = p + 1 /\ p \in DOMAIN returned /\ returned[p] = "None")

\* the worker is past a page that failed on each of three requests
C11_Witness ==
    \E p \in DOMAIN site :
        /\ site[p] \in Retryable
        /\ pr_page > p
        /\ returned[p] = "None"
        /\ requests_of[p] = 3

\* C18 as stated: a failed fetch is retried up to a cap: a unit is given
\* up only after more than one download_document call, and scrape_page
\* makes at most 3 requests per call.
C18_Original ==
    /\ \A p \in pages_done \ loaded.pages_done :
          \A i \in abandoned[p] : downloads[i] >= 2
    /\ \A p \in DOMAIN site : requests_of[p] <= 3

\* C18 amended: scrape_page makes at most 3 requests per call; when each
\* fails with a retryable error it makes exactly 3 and returns None, and
\* process_page_range goes on through the rest of its range. The
\* court-records downloader does not retry: download_document is called at
\* most once for each page of the run that returned the id.
C18_RetryCap ==
    /\ \A p \in DOMAIN site : requests_of[p] <= 3
    /\ \A p \in DOMAIN site :
          (site[p] \in Retryable /\ returned[p] # "pending") =>
              requests_of[p] = 3 /\ returned[p] = "None"
    /\ pc = "sp_done" => \A p \in DOMAIN site : returned[p] # "pending"
    /\ \A i \in Ids :
          downloads[i] <= Cardinality({p \in fetched : i \in page_records[p]})

\* the range was walked to its end after a page had timed out three times
C18_Witness ==
    /\ pc = "sp_done"
    /\ \E p \in DOMAIN site :
          /\ site[p] = "timeout"
          /\ requests_of[p] = 3
          /\ p < pr_end_page

\* C19 as stated: the fetch of a page that fails with a fatal error (a 4xx
\* status other than 429, an unparseable response) makes exactly one request.
C19_Original ==
    \A p \in DOMAIN site :
        (site[p] \in Fatal /\ returned[p] # "pending") => requests_of[p] = 1

\* C19 amended: scrape_page does not tell a fatal failure from a transient
\* one: a page that answers every request with a status other than 200, of
\* any kind, or with a response that raises, gets 3 requests and None; the
\* call returns None before its third request only on a 200 response
\* without the table, and makes one request when the first response is one.
C19_FailuresRetriedAlike ==
    /\ \A p \in DOMAIN site :
          (site[p] \in Fatal /\ returned[p] # "pending") =>
              requests_of[p] = 3 /\ returned[p] = "None"
    /\ \A p \in DOMAIN site :
          (site[p] = "no_table" /\ returned[p] # "pending") =>
              requests_of[p] = 1 /\ returned[p] = "None"
    /\ \A p \in DOMAIN site :
          (returned[p] = "None" /\ requests_of[p] < 3) =>
              site[p] \in {"no_table", "flaky"}

\* a page that answers 4xx has been given up after its third request
C19_Witness ==
    \E p \in DOMAIN site :
        /\ site[p] = "fatal_status"
        /\ returned[p] = "None"
        /\ requests_of[p] = 3
        /\ Len(sleeps_of[p]) = 3

\* the header is the first row and the only header row of a file that holds rows
HeaderOnce(rows, h) ==
    IF rows = <<>> THEN TRUE ELSE rows[1] = h /\ count(rows, h) = 1

\* the rows s are still in place, unchanged, at the start of t
IsPrefix(s, t) ==
    IF Len(s) <= Len(t) THEN SubSeq(t, 1, Len(s)) = s ELSE FALSE

\* C21 as stated: every step, a kill and a new run included, leaves each
\* output file with one header row, as its first row, whenever it holds
\* rows, and leaves the rows already written in place and unchanged.
C21_OneHeaderAppendOnly ==
    [][/\ HeaderOnce(CSV_FILE.rows', HeaderRow)
       /\ HeaderOnce(COMPANIES_CSV.rows', 0)
       /\ IsPrefix(CSV_FILE.rows, CSV_FILE.rows')
       /\ IsPrefix(COMPANIES_CSV.rows, COMPANIES_CSV.rows')]_vars

\* a step of a pool thread: a download of the court-records downloader
\* starts or ends, or a worker of the company-list scraper starts or ends
\* a scrape_page call
PoolThreadStep ==
    /\ pc' = pc
    /\ run' = run
    /\ \/ \E i \in Ids : futures[i] \in {"queued", "running"} /\ futures'[i] # futures[i]
       \/ \E w \in Workers : workers[w].state \in {"ready", "fetching"} /\ workers'[w] # workers[w]

\* the output files and the progress state, in memory and on disk
SharedState ==
    <<CSV_FILE, PROGRESS_FILE, pages_done, ids_downloaded,
      COMPANIES_CSV, PROGRESS_TXT, companies_found, completed_pages, current_page>>

\* C22: no step of a pool thread changes an output file or the progress
\* state, so every append, mutation and save is a step of the one main
\* thread; and the main thread comes to advance and save the progress of
\* the company-list scraper only when no worker of the batch is still at
\* work.
C22_WritesSerialized ==
    [][/\ PoolThreadStep => UNCHANGED SharedState
       /\ (script = "zauba" /\ pc # "z_advance" /\ pc' = "z_advance") =>
              \A w \in Workers : workers[w].state \notin {"ready", "fetching"}]_vars

\* the main thread is inside a write (a row appended and its id not yet
\* marked; the file created and its header not yet written) while a pool
\* thread is running
C22_Witness ==
    \/ script = "uyap" /\ pc = "mark" /\ Running # {}
    \/ script = "zauba" /\ pc = "z_csv_header" /\ Fetching # {}

\* C23 as stated: at every point the progress on disk lacks at most the
\* page in flight: every page done in memory other than the current one is
\* in the saved pages_done, and at most one page completed by the
\* company-list scraper is not below the saved current_page.
C23_AtMostOnePageLost ==
    /\ script = "uyap" => (pages_done \ {page_number}) \subseteq persisted.pages_done
    /\ (script = "zauba" /\ pc \notin {"z_load", "error"}) =>
          Cardinality({p \in completed_pages :
                          p >= z_load_progress(PROGRESS_TXT).page}) <= 1

\* C25: a run whose progress file is absent starts from the empty state
\* (two empty sets; page 1), and progress is loaded only at the start of
\* the process: the load position is never entered again within a run and
\* what was loaded does not change afterwards.
C25_LoadedOnceEmptyIfAbsent ==
    [][/\ (pc = "load" /\ ~PROGRESS_FILE.exists /\ run' = run) =>
             /\ pc' = "init_csv"
             /\ pages_done' = {}
             /\ ids_downloaded' = {}
       /\ (pc = "z_load" /\ ~PROGRESS_TXT.exists /\ run' = run) =>
             /\ pc' = "z_count"
             /\ current_page' = 1
       /\ (script = "uyap" /\ pc # "load" /\ run' = run) => loaded' = loaded
       /\ (pc' \in {"load", "z_load"} /\ run' = run) => pc' = pc]_vars

\* both scripts have started without a progress file and gone on from the
\* empty state
C25_Witness ==
    \/ /\ script = "uyap"
       /\ pc = "submit"
       /\ ~PROGRESS_FILE.exists
       /\ loaded = [raised |-> FALSE, pages_done |-> {}, ids_downloaded |-> {}]
    \/ /\ script = "zauba"
       /\ pc = "z_collect"
       /\ ~PROGRESS_TXT.exists
       /\ batch_start = 1

\* C26: while a page whose response held no records is added to pages_done
\* and saved, no download has been submitted; once the loop is back at its
\* top the page is in the pages_done on disk, no download error was logged
\* for it and page_number is past it.
C26_EmptyPageSettled ==
    /\ (pc \in {"add_page", "save_open", "save_dump"}
           /\ page_records[page_number] = {}) =>
          /\ metadata_by_id = {}
          /\ \A i \in Ids : futures[i] = "none"
    /\ pc = "loop" =>
          \A p \in EmptyPages :
              /\ p < page_number
              /\ p \in persisted.pages_done
              /\ abandoned[p] = {}

\* the first page held no records, was saved, and the loop is at the next page
C26_Witness ==
    /\ pc = "loop"
    /\ run = 1
    /\ 1 \in EmptyPages
    /\ page_number = 2
    /\ downloads = [i \in Ids |-> 0]

\* C27 as stated: scrape_page makes at most 3 requests per call and every
\* sleep is followed by another request (none after the last attempt).
C27_NoSleepAfterLastAttempt ==
    \A p \in DOMAIN site :
        /\ requests_of[p] <= 3
        /\ returned[p] # "pending" => Len(sleeps_of[p]) < requests_of[p]

\* C30 as stated: within a run current_page never decreases.
C30_CurrentPageNeverDecreases ==
    [][(script = "zauba" /\ run' = run) => current_page' >= current_page]_vars

\* C33: at every point, a kill and a new run included, every id in the
\* ids_downloaded on disk has a row in the CSV file.
C33_PersistedIdsHaveRows ==
    script = "uyap" => persisted.ids_downloaded \subseteq Range(CSV_FILE.rows)

\* a run that follows a kill or an earlier run finds an id on disk
C33_Witness ==
    /\ script = "uyap"
    /\ run = 2
    /\ pc = "load"
    /\ "a" \in persisted.ids_downloaded

\* C31 as stated: in a run without a kill (the first run, which starts
\* without companies.csv) no step appends rows of a page number whose rows
\* the file already holds.
C31_PageRowsAppendedOnce ==
    [][(script = "zauba" /\ run = 1 /\ run' = 1
           /\ Len(COMPANIES_CSV.rows') > Len(COMPANIES_CSV.rows)
           /\ results_queue # <<>>) =>
          \A k \in DOMAIN COMPANIES_CSV.rows :
              COMPANIES_CSV.rows[k] # Head(results_queue).page]_vars

\* C32 as stated: when save_progress has written current_page (first run,
\* started from page 1), every page number below it has rows in
\* companies.csv.
C32_NoPagePassedOver ==
    (script = "zauba" /\ run = 1 /\ pc = "z_while" /\ PROGRESS_TXT.exists) =>
        \A p \in 1..(z_load_progress(PROGRESS_TXT).page - 1) :
            \E k \in DOMAIN COMPANIES_CSV.rows : COMPANIES_CSV.rows[k] = p

\* C34 as stated: at the end of every batch iteration (back at the while
\* test) companies_found is the number of data rows of companies.csv (the
\* header row is 0, a data row carries its page number).
C34_FoundEqualsDataRows ==
    (script = "zauba" /\ pc = "z_while") =>
        companies_found =
            Cardinality({k \in DOMAIN COMPANIES_CSV.rows :
                            COMPANIES_CSV.rows[k] # 0})

NextZ ==
    \/ Z_Load \/ Z_Count \/ Z_Done \/ Z_Submit
    \/ \E w \in Workers : Z_BeginScrape(w)
    \/ \E w \in Workers : Z_EndScrape(w)
    \/ Z_CsvCreate \/ Z_Get \/ Z_Timeout \/ Z_Full \/ Z_Join
    \/ Z_Advance \/ Z_SaveOpen \/ Z_SaveWrite
    \/ Z_Kill \/ Z_Rerun

SpecZ == InitZ /\ [][NextZ]_vars

Next ==
    \/ Load \/ InitCsv \/ WriteHeader
    \/ SkipPage \/ FetchPage \/ Finish
    \/ Submit
    \/ \E i \in Ids : StartDownload(i)
    \/ \E i \in Ids : FinishDownload(i)
    \/ \E i \in Ids : CollectError(i)
    \/ \E i \in Ids : CollectRow(i)
    \/ MarkDownloaded \/ ExitPool
    \/ AddPage \/ SaveOpen \/ SaveFlush \/ SaveDump
    \/ Kill \/ Rerun

Spec == Init /\ [][Next]_vars

\* either script
SpecAll == (Init \/ InitZ) /\ [][Next \/ NextZ]_vars

\* the court-records downloader, or one process_page_range call
SpecRetry == (Init \/ InitS) /\ [][Next \/ NextS]_vars
====
